---- MODULE Spec2Model ----
(***************************************************************************)
(* Model of the PILA payment-date calculator of control-accesos:           *)
(*   lib/colombia-holidays.ts  the holiday engine and business-day         *)
(*                             calendar                                    *)
(*   lib/pila-utils.ts         calcularFechasPagoPila and its helpers      *)
(*                                                                         *)
(* A JavaScript Date is modelled by its local wall-clock timestamp,        *)
(* counted in hours since 1970-01-01T00:00 local time: day number times    *)
(* HoursPerDay plus the hour of the day.  The deployment's zone has no     *)
(* daylight saving (America/Bogota, UTC), so local days are all            *)
(* HoursPerDay long.                                                       *)
(***************************************************************************)
EXTENDS Integers, Sequences, FiniteSets, TLC

\* ---------------------------------------------------------------- bounds
\* Years for which the calendar operations are exercised.
CalMinYear == 2010
CalMaxYear == 2035
\* Years in which the periods given to calcularFechasPagoPila start.
MinYear == 2024
MaxYear == 2025
\* A period ends at most MaxSpan months after the month it starts in.
MaxSpan == 2

\* ------------------------------------------------------- program constants
\* 1000 * 60 * 60 * 24 ms, in the model's unit of one hour.
HoursPerDay == 24

\* ---------------------------------------------------------------- Date
\* Days since 1970-01-01 of the proleptic Gregorian date y-m-d (m in 1..12).
DaysFromCivil(y, m, d) ==
  LET yy  == IF m <= 2 THEN y - 1 ELSE y
      era == yy \div 400
      yoe == yy - era * 400
      mp  == (m + 9) % 12
      doy == (153 * mp + 2) \div 5 + d - 1
      doe == yoe * 365 + yoe \div 4 - yoe \div 100 + doy
  IN  era * 146097 + doe - 719468

\* The Gregorian date of a day number, month in 1..12; in steps, each
\* taking the values computed so far.
CivilOfMonth(y, m, d) ==
  [year |-> IF m <= 2 THEN y + 1 ELSE y, month |-> m, day |-> d]

CivilOfMp(y, doy, mp) ==
  CivilOfMonth(y, IF mp < 10 THEN mp + 3 ELSE mp - 9, doy - (153 * mp + 2) \div 5 + 1)

CivilOfDoy(y, doy) == CivilOfMp(y, doy, (5 * doy + 2) \div 153)

CivilOfYoe(era, doe, yoe) ==
  CivilOfDoy(yoe + era * 400, doe - (365 * yoe + yoe \div 4 - yoe \div 100))

CivilOfDoe(era, doe) ==
  CivilOfYoe(era, doe,
             (doe - doe \div 1460 + doe \div 36524 - doe \div 146096) \div 365)

CivilOfEra(zz, era) == CivilOfDoe(era, zz - era * 146097)

CivilFromDays(z) == CivilOfEra(z + 719468, (z + 719468) \div 146097)

\* new Date(year, month, day): month is 0-based; a month or day outside its
\* range carries into the year or the neighbouring month.
NewDate(year, month, day) ==
  (DaysFromCivil(year + month \div 12, (month % 12) + 1, 1) + day - 1) * HoursPerDay

DayOf(t)       == t \div HoursPerDay
HourOf(t)      == t % HoursPerDay
getFullYear(t) == CivilFromDays(DayOf(t)).year
getMonth(t)    == CivilFromDays(DayOf(t)).month - 1
getDate(t)     == CivilFromDays(DayOf(t)).day
\* 0 = Sunday .. 6 = Saturday; 1970-01-01 was a Thursday.
getDay(t)      == (DayOf(t) + 4) % 7
\* date.setDate(n): same year, month and time of day, day of month n.
setDate(t, n)  == NewDate(getFullYear(t), getMonth(t), n) + HourOf(t)
\* date.setHours(0, 0, 0, 0)
setHours0(t)   == DayOf(t) * HoursPerDay

\* ---------------------------------------------------------------- holidays
\* The algorithm's 1-based month given to the Date constructor as it is.
calculateEasterOneBasedMonth(year) ==
  LET a == year % 19
      b == year \div 100
      c == year % 100
      d == b \div 4
      e == b % 4
      f == (b + 8) \div 25
      g == (b - f + 1) \div 3
      h == (19 * a + b - d - g + 15) % 30
      i == c \div 4
      k == c % 4
      l == (32 + 2 * e + 2 * i - h - k) % 7
      m == (a + 11 * h + 22 * l) \div 451
      month == (h + l - 7 * m + 114) \div 31
      day   == ((h + l - 7 * m + 114) % 31) + 1
  IN  NewDate(year, month, day)

calculateEaster(year) ==
  LET a == year % 19
      b == year \div 100
      c == year % 100
      d == b \div 4
      e == b % 4
      f == (b + 8) \div 25
      g == (b - f + 1) \div 3
      h == (19 * a + b - d - g + 15) % 30
      i == c \div 4
      k == c % 4
      l == (32 + 2 * e + 2 * i - h - k) % 7
      m == (a + 11 * h + 22 * l) \div 451
      month == (h + l - 7 * m + 114) \div 31 - 1
      day   == ((h + l - 7 * m + 114) % 31) + 1
  IN  NewDate(year, month, day)

moveToMondayNoSundayCase(date) ==
  LET dayOfWeek == getDay(date)
  IN  IF dayOfWeek # 1
        THEN setDate(date, getDate(date) + (8 - dayOfWeek))
        ELSE date

moveToMonday(date) ==
  LET dayOfWeek == getDay(date)
  IN  IF dayOfWeek = 0
        THEN setDate(date, getDate(date) + 1)
        ELSE IF dayOfWeek # 1
          THEN setDate(date, getDate(date) + (8 - dayOfWeek))
          ELSE date

Holiday(date, name, type) == [date |-> date, name |-> name, type |-> type]

\* FESTIVOS FIJOS
fixedHolidays(year) ==
  << Holiday(NewDate(year, 0, 1), "Anio Nuevo", "fixed"),
     Holiday(NewDate(year, 4, 1), "Dia del Trabajo", "fixed"),
     Holiday(NewDate(year, 6, 20), "Dia de la Independencia", "fixed"),
     Holiday(NewDate(year, 7, 7), "Batalla de Boyaca", "fixed"),
     Holiday(NewDate(year, 11, 8), "Inmaculada Concepcion", "fixed"),
     Holiday(NewDate(year, 11, 25), "Navidad", "fixed") >>

\* The movable holidays left on their base dates.
movableHolidaysUnshifted(year) ==
  << Holiday(NewDate(year, 0, 6), "Reyes Magos", "movable"),
     Holiday(NewDate(year, 2, 19), "San Jose", "movable"),
     Holiday(NewDate(year, 5, 29), "San Pedro y San Pablo", "movable"),
     Holiday(NewDate(year, 7, 15), "Asuncion de la Virgen", "movable"),
     Holiday(NewDate(year, 9, 12), "Dia de la Raza", "movable"),
     Holiday(NewDate(year, 10, 1), "Todos los Santos", "movable"),
     Holiday(NewDate(year, 10, 11), "Independencia de Cartagena", "movable") >>

\* FESTIVOS MOVILES
movableHolidays(year) ==
  << Holiday(moveToMonday(NewDate(year, 0, 6)), "Reyes Magos", "movable"),
     Holiday(moveToMonday(NewDate(year, 2, 19)), "San Jose", "movable"),
     Holiday(moveToMonday(NewDate(year, 5, 29)), "San Pedro y San Pablo", "movable"),
     Holiday(moveToMonday(NewDate(year, 7, 15)), "Asuncion de la Virgen", "movable"),
     Holiday(moveToMonday(NewDate(year, 9, 12)), "Dia de la Raza", "movable"),
     Holiday(moveToMonday(NewDate(year, 10, 1)), "Todos los Santos", "movable"),
     Holiday(moveToMonday(NewDate(year, 10, 11)), "Independencia de Cartagena", "movable") >>

easterHolidaysWithoutSunday(easter) ==
      << Holiday(setDate(easter, getDate(easter) - 3), "Jueves Santo", "easter"),
         Holiday(setDate(easter, getDate(easter) - 2), "Viernes Santo", "easter"),
         Holiday(moveToMonday(setDate(easter, getDate(easter) + 39)), "Ascension del Senor", "easter"),
         Holiday(moveToMonday(setDate(easter, getDate(easter) + 60)), "Corpus Christi", "easter"),
         Holiday(moveToMonday(setDate(easter, getDate(easter) + 68)), "Sagrado Corazon", "easter") >>

\* The offsets applied to the day of month without the carry into the next
\* month: the day is clamped to the month's last day.
easterHolidaysClamped(easter) ==
  LET last   == getDate(NewDate(getFullYear(easter), getMonth(easter) + 1, 0))
      clamp(n) == IF n < 1 THEN 1 ELSE IF n > last THEN last ELSE n
  IN  << Holiday(setDate(easter, clamp(getDate(easter) - 3)), "Jueves Santo", "easter"),
         Holiday(setDate(easter, clamp(getDate(easter) - 2)), "Viernes Santo", "easter"),
         Holiday(easter, "Domingo de Pascua", "easter"),
         Holiday(moveToMonday(setDate(easter, clamp(getDate(easter) + 39))), "Ascension del Senor", "easter"),
         Holiday(moveToMonday(setDate(easter, clamp(getDate(easter) + 60))), "Corpus Christi", "easter"),
         Holiday(moveToMonday(setDate(easter, clamp(getDate(easter) + 68))), "Sagrado Corazon", "easter") >>

\* FESTIVOS BASADOS EN PASCUA, easter being calculateEaster(year)
easterHolidays(easter) ==
      << Holiday(setDate(easter, getDate(easter) - 3), "Jueves Santo", "easter"),
         Holiday(setDate(easter, getDate(easter) - 2), "Viernes Santo", "easter"),
         Holiday(easter, "Domingo de Pascua", "easter"),
         Holiday(moveToMonday(setDate(easter, getDate(easter) + 39)), "Ascension del Senor", "easter"),
         Holiday(moveToMonday(setDate(easter, getDate(easter) + 60)), "Corpus Christi", "easter"),
         Holiday(moveToMonday(setDate(easter, getDate(easter) + 68)), "Sagrado Corazon", "easter") >>

\* The holidays in the order getColombianHolidays pushes them.
holidaysPushed(year) ==
  fixedHolidays(year) \o movableHolidays(year) \o easterHolidays(calculateEaster(year))

\* Array.prototype.sort with the comparator a.date.getTime() - b.date.getTime():
\* a stable sort by date.
insertByDate(s, h) ==
  LET k == Cardinality({j \in 1..Len(s) : s[j].date <= h.date})
  IN  SubSeq(s, 1, k) \o <<h>> \o SubSeq(s, k + 1, Len(s))

RECURSIVE sortByDate(_)
sortByDate(s) ==
  IF s = <<>> THEN <<>>
  ELSE insertByDate(sortByDate(SubSeq(s, 1, Len(s) - 1)), s[Len(s)])

\* The list returned as pushed, the final sort left out.
getColombianHolidaysUnsorted(year) == holidaysPushed(year)

getColombianHolidays(year) == sortByDate(holidaysPushed(year))

\* ------------------------------------------------------- business days
\* The elements of an array.
Elements(array) == {array[j] : j \in 1..Len(array)}

\* The holiday's Date compared with the argument as a whole, time of day
\* included.
isHolidayAtSameTime(date) ==
  \E holiday \in Elements(getColombianHolidays(getFullYear(date))) :
    holiday.date = date

isHoliday(date) ==
  \E holiday \in Elements(getColombianHolidays(getFullYear(date))) :
    /\ getFullYear(holiday.date) = getFullYear(date)
    /\ getMonth(holiday.date) = getMonth(date)
    /\ getDate(holiday.date) = getDate(date)

\* The holiday test left out: Monday to Friday are business days.
isBusinessDayWeekdaysOnly(date) ==
  LET dayOfWeek == getDay(date)
  IN  ~(dayOfWeek = 0 \/ dayOfWeek = 6)

isBusinessDay(date) ==
  LET dayOfWeek == getDay(date)
  IN  IF dayOfWeek = 0 \/ dayOfWeek = 6 THEN FALSE
      ELSE IF isHoliday(date) THEN FALSE
      ELSE TRUE

\* isBusinessDay of every day of the years the payment dates are computed
\* in, each evaluated once (an operator is evaluated anew at every use); a
\* day outside these years has no entry.
TableDays == DaysFromCivil(MinYear - 1, 1, 1)..DaysFromCivil(MaxYear + 2, 12, 31)
businessDay == [day \in TableDays |-> isBusinessDay(day * HoursPerDay)] @@ <<>>

\* The value null, and a Date that is not null.
null == <<>>
Some(date) == <<date>>

\* The while loop of getNthBusinessDayOfMonth from `current` on, with
\* businessDayCount business days counted so far.
RECURSIVE nthBusinessDayFrom(_, _, _, _)
nthBusinessDayFrom(current, lastDay, businessDayCount, n) ==
  IF ~(current <= lastDay) THEN null
  ELSE IF businessDay[DayOf(current)]
    THEN IF businessDayCount + 1 = n
           THEN Some(current)
           ELSE nthBusinessDayFrom(setDate(current, getDate(current) + 1), lastDay,
                                   businessDayCount + 1, n)
    ELSE nthBusinessDayFrom(setDate(current, getDate(current) + 1), lastDay,
                            businessDayCount, n)

\* The count started at 1 instead of 0.
getNthBusinessDayOfMonthCountFromOne(year, month, n) ==
  LET firstDay == NewDate(year, month, 1)
      lastDay  == NewDate(year, month + 1, 0)
  IN  nthBusinessDayFrom(firstDay, lastDay, 1, n)

\* lastDay taken with month for month + 1: the last day of the month before.
getNthBusinessDayOfMonthUntilPreviousMonth(year, month, n) ==
  LET firstDay == NewDate(year, month, 1)
      lastDay  == NewDate(year, month, 0)
  IN  nthBusinessDayFrom(firstDay, lastDay, 0, n)

getNthBusinessDayOfMonth(year, month, n) ==
  LET firstDay == NewDate(year, month, 1)
      lastDay  == NewDate(year, month + 1, 0)
  IN  nthBusinessDayFrom(firstDay, lastDay, 0, n)

\* The while loop of getBusinessDaysOfMonth from `current` on.
RECURSIVE businessDaysFrom(_, _, _)
businessDaysFrom(current, lastDay, businessDays) ==
  IF ~(current <= lastDay) THEN businessDays
  ELSE businessDaysFrom(setDate(current, getDate(current) + 1), lastDay,
                        IF businessDay[DayOf(current)]
                          THEN Append(businessDays, current)
                          ELSE businessDays)

getBusinessDaysOfMonth(year, month) ==
  LET firstDay == NewDate(year, month, 1)
      lastDay  == NewDate(year, month + 1, 0)
  IN  businessDaysFrom(firstDay, lastDay, <<>>)

\* The while loop of countBusinessDays from `current` on.
RECURSIVE countFrom(_, _, _)
countFrom(current, endDate, count) ==
  IF ~(current <= endDate) THEN count
  ELSE countFrom(setDate(current, getDate(current) + 1), endDate,
                 IF businessDay[DayOf(current)] THEN count + 1 ELSE count)

\* current is a copy of startDate: the argument keeps its value.
countBusinessDays(startDate, endDate) == countFrom(startDate, endDate, 0)

\* --------------------------------------------------------- the NIT table
\* An entry keyed by the last digit alone.
LimiteUltimoDigito(dias, digitos) ==
  [DIAS_HABILES |-> dias, DIGITOS_NIT |-> <<digitos[2]>>]

Limite(dias, digitos) == [DIAS_HABILES |-> dias, DIGITOS_NIT |-> digitos]

\* A string is the sequence of its characters.
LIMITE_SEG_SOCIAL ==
  <<
     Limite(5, <<"2", "2">>), Limite(5, <<"2", "3">>), Limite(2, <<"0", "0">>), Limite(2, <<"0", "1">>),
     Limite(2, <<"0", "2">>), Limite(2, <<"0", "3">>), Limite(2, <<"0", "4">>), Limite(2, <<"0", "5">>),
     Limite(2, <<"0", "6">>), Limite(2, <<"0", "7">>), Limite(3, <<"0", "8">>), Limite(3, <<"0", "9">>),
     Limite(3, <<"1", "0">>), Limite(3, <<"1", "1">>), Limite(3, <<"1", "2">>), Limite(3, <<"1", "3">>),
     Limite(3, <<"1", "4">>), Limite(4, <<"1", "5">>), Limite(4, <<"1", "6">>), Limite(4, <<"1", "7">>),
     Limite(4, <<"1", "8">>), Limite(4, <<"1", "9">>), Limite(4, <<"2", "0">>), Limite(4, <<"2", "1">>),
     Limite(5, <<"2", "4">>), Limite(5, <<"2", "5">>), Limite(5, <<"2", "6">>), Limite(5, <<"2", "7">>),
     Limite(5, <<"2", "8">>), Limite(6, <<"2", "9">>), Limite(6, <<"3", "0">>), Limite(6, <<"3", "1">>),
     Limite(6, <<"3", "2">>), Limite(6, <<"3", "3">>), Limite(6, <<"3", "4">>), Limite(6, <<"3", "5">>),
     Limite(7, <<"3", "6">>), Limite(7, <<"3", "7">>), Limite(7, <<"3", "8">>), Limite(7, <<"3", "9">>),
     Limite(7, <<"4", "0">>), Limite(7, <<"4", "1">>), Limite(7, <<"4", "2">>), Limite(8, <<"4", "3">>),
     Limite(8, <<"4", "4">>), Limite(8, <<"4", "5">>), Limite(8, <<"4", "6">>), Limite(8, <<"4", "7">>),
     Limite(8, <<"4", "8">>), Limite(8, <<"4", "9">>), Limite(9, <<"5", "0">>), Limite(9, <<"5", "1">>),
     Limite(9, <<"5", "2">>), Limite(9, <<"5", "3">>), Limite(9, <<"5", "4">>), Limite(9, <<"5", "5">>),
     Limite(9, <<"5", "6">>), Limite(10, <<"5", "7">>), Limite(10, <<"5", "8">>), Limite(10, <<"5", "9">>),
     Limite(10, <<"6", "0">>), Limite(10, <<"6", "1">>), Limite(10, <<"6", "2">>), Limite(10, <<"6", "3">>),
     Limite(11, <<"6", "4">>), Limite(11, <<"6", "5">>), Limite(11, <<"6", "6">>), Limite(11, <<"6", "7">>),
     Limite(11, <<"6", "8">>), Limite(11, <<"6", "9">>), Limite(12, <<"7", "0">>), Limite(12, <<"7", "1">>),
     Limite(12, <<"7", "2">>), Limite(12, <<"7", "3">>), Limite(12, <<"7", "4">>), Limite(12, <<"7", "5">>),
     Limite(13, <<"7", "6">>), Limite(13, <<"7", "7">>), Limite(13, <<"7", "8">>), Limite(13, <<"7", "9">>),
     Limite(13, <<"8", "0">>), Limite(13, <<"8", "1">>), Limite(14, <<"8", "2">>), Limite(14, <<"8", "3">>),
     Limite(14, <<"8", "4">>), Limite(14, <<"8", "5">>), Limite(14, <<"8", "6">>), Limite(14, <<"8", "7">>),
     Limite(15, <<"8", "8">>), Limite(15, <<"8", "9">>), Limite(15, <<"9", "0">>), Limite(15, <<"9", "1">>),
     Limite(15, <<"9", "2">>), Limite(15, <<"9", "3">>), Limite(16, <<"9", "4">>), Limite(16, <<"9", "5">>),
     Limite(16, <<"9", "6">>), Limite(16, <<"9", "7">>), Limite(16, <<"9", "8">>), Limite(16, <<"9", "9">>)
  >>

\* The content of the exported array LIMITE_SEG_SOCIAL (it is not frozen):
\* the array literal above when the module is loaded.
VARIABLE limiteSegSocial

\* ---------------------------------------------------------------- strings
DigitChars == <<"0", "1", "2", "3", "4", "5", "6", "7", "8", "9">>

\* Number.prototype.toString of a non-negative integer.
RECURSIVE toString(_)
toString(n) ==
  IF n < 10 THEN <<DigitChars[n + 1]>>
  ELSE toString(n \div 10) \o <<DigitChars[(n % 10) + 1]>>

\* String(nit) of a NIT given as a number or as a string.
String(nit) == IF nit.type = "number" THEN toString(nit.num) ELSE nit.str

\* str.slice(-2)
sliceLast2(str) ==
  IF Len(str) <= 2 THEN str ELSE SubSeq(str, Len(str) - 1, Len(str))

\* str.padStart(2, '0')
RECURSIVE padStart2(_)
padStart2(str) == IF Len(str) >= 2 THEN str ELSE padStart2(<<"0">> \o str)

\* Number(str) of a string of decimal digits.
RECURSIVE Number(_)
Number(str) ==
  IF str = <<>> THEN 0
  ELSE 10 * Number(SubSeq(str, 1, Len(str) - 1))
         + (CHOOSE v \in 0..9 : DigitChars[v + 1] = str[Len(str)])

\* str.split('/')
RECURSIVE split(_)
split(str) ==
  IF \A j \in 1..Len(str) : str[j] # "/" THEN <<str>>
  ELSE LET k == CHOOSE j \in 1..Len(str) :
                  str[j] = "/" /\ \A q \in 1..(j - 1) : str[q] # "/"
       IN  <<SubSeq(str, 1, k - 1)>> \o split(SubSeq(str, k + 1, Len(str)))

\* Array.prototype.find on the table: the first item with these digits.
findLimite(ultimosDigitos) ==
  LET hits == {j \in 1..Len(limiteSegSocial) :
                 limiteSegSocial[j].DIGITOS_NIT = ultimosDigitos}
  IN  IF hits = {} THEN null
      ELSE Some(limiteSegSocial[CHOOSE j \in hits : \A q \in hits : j <= q])

\* The last two characters looked up without the padding.
getDiasHabilesPagoSinPadStart(nit) ==
  LET nitStr         == String(nit)
      ultimosDigitos == sliceLast2(nitStr)
      limiteSeg      == findLimite(ultimosDigitos)
  IN  IF limiteSeg = null THEN 10 ELSE limiteSeg[1].DIAS_HABILES

getDiasHabilesPago(nit) ==
  LET nitStr         == String(nit)
      ultimosDigitos == padStart2(sliceLast2(nitStr))
      limiteSeg      == findLimite(ultimosDigitos)
  IN  IF limiteSeg = null THEN 10 ELSE limiteSeg[1].DIAS_HABILES

\* ------------------------------------------------------------ pila-utils
\* A date string of the solicitud: "YYYY-MM-DD" (form "date") or
\* "YYYY-MM-DDTHH:00" (form "datetime"); month in 1..12.
Fecha(year, month, day, hour, form) ==
  [year |-> year, month |-> month, day |-> day, hour |-> hour, form |-> form]

\* new Date(str): a date-only string is midnight UTC, a date-time string
\* without a zone is local time; zone is the local zone's offset from UTC in
\* hours.
parseFecha(str, zone) ==
  IF str.form = "date"
    THEN NewDate(str.year, str.month - 1, str.day) + zone
    ELSE NewDate(str.year, str.month - 1, str.day) + str.hour

formatDate(date) ==
  LET dia  == padStart2(toString(getDate(date)))
      mes  == padStart2(toString(getMonth(date) + 1))
      anio == toString(getFullYear(date))
  IN  dia \o <<"/">> \o mes \o <<"/">> \o anio

\* "DD/MM/YYYY" back to a Date at local midnight.
parseDate(dateStr) ==
  LET parts == split(dateStr)
      dia   == Number(parts[1])
      mes   == Number(parts[2])
      anio  == Number(parts[3])
  IN  NewDate(anio, mes - 1, dia)

\* Math.ceil(a / b) for b > 0.
ceilDiv(a, b) == 0 - ((0 - a) \div b)

\* ahora is the value of new Date() at the call.
calcularDiasHastaFecha(fecha, ahora) ==
  LET hoy == setHours0(ahora)
      diferencia == setHours0(fecha) - hoy
  IN  ceilDiv(diferencia, HoursPerDay)

\* The branch for a date already past left out.
estadoProvisionalSinPasadas(diasHastaFecha) ==
  IF diasHastaFecha <= 10 THEN "warning" ELSE "normal"

\* The status given to a new entry, by proximity.
estadoProvisional(diasHastaFecha) ==
  IF diasHastaFecha < 0 THEN "normal"
  ELSE IF diasHastaFecha <= 10 THEN "warning"
  ELSE "normal"

MesNombre ==
  << "enero", "febrero", "marzo", "abril", "mayo", "junio", "julio",
     "agosto", "septiembre", "octubre", "noviembre", "diciembre" >>

\* Intl.DateTimeFormat('es-CO', {month: 'long', year: 'numeric'}).format
mesTexto(date) == <<MesNombre[getMonth(date) + 1], "de", getFullYear(date)>>

FechaCorte(id, date, ahora) ==
  [ id       |-> id,
    fecha    |-> formatDate(date),
    estado   |-> estadoProvisional(calcularDiasHastaFecha(date, ahora)),
    mesTexto |-> mesTexto(date) ]

\* The loop without its break: every entry on or after today becomes "success".
marcarTodasLasFuturas(fechas, ahora) ==
  LET hoy == setHours0(ahora)
  IN  [j \in 1..Len(fechas) |->
         IF parseDate(fechas[j].fecha) >= hoy
           THEN [fechas[j] EXCEPT !.estado = "success"]
           ELSE fechas[j]]

\* The final for loop: the first entry on or after today becomes "success".
marcarPrimeraFutura(fechas, ahora) ==
  LET hoy    == setHours0(ahora)
      future == {j \in 1..Len(fechas) : parseDate(fechas[j].fecha) >= hoy}
  IN  IF future = {} THEN fechas
      ELSE LET first == CHOOSE j \in future : \A q \in future : j <= q
           IN  [fechas EXCEPT ![first].estado = "success"]

\* ------------------------------------------------------------------ state
VARIABLES
  \* one call of a calendar operation
  op,            \* the calendar operation called
  arg,           \* its argument
  calPc,         \* "call" before the operation has run, "loop" inside
                 \* the loop of getNextBusinessDay, "return" after
  ret,           \* the value it returned
  nextDay,       \* local nextDay of getNextBusinessDay
  \* one call of calcularFechasPagoPila
  pc,            \* "call", "while", "mark" or "done"
  nit,           \* argument nit
  fechaInicio,   \* argument fechaInicio
  fechaFin,      \* argument fechaFin
  zone,          \* the server's local zone, hours from UTC
  now,           \* the wall clock during the call
  inicioVisita,
  finVisita,
  diasHabilesRequeridos,
  mesActual,
  anioActual,
  idCounter,
  fechasPago,
  meses          \* the months the loop has visited, in order (history)

VARIABLES
  \* a second call of calcularFechasPagoPila with the same arguments, made
  \* by a concurrent request
  otra           \* its position and its locals while the first call runs

VARIABLES
  \* one request to the fechas-corte handler (GET); nit, fechaInicio and
  \* fechaFin are then the fields of datosSolicitud
  hpc,           \* "request", "await" (calcularFechasPagoPila called) or
                 \* "responded"
  upstream,      \* how far the request gets before datosSolicitud is read
  response       \* the response returned

VARIABLES
  \* one request through the middleware
  mpc,           \* "request" or "responded"
  request,       \* pathname, method, auth_token cookie, origin header
  checks,        \* what checkRateLimit and validateRequestHeaders return
  nodeEnv,       \* process.env.NODE_ENV
  mwResponse     \* the response the middleware returns

VARIABLES
  \* the state of LoginPage
  user,
  password,
  isLoading,
  recaptchaReady,
  recaptchaSiteKey,
  isForgotPasswordOpen,
  isPasswordEnabled,
  tokenRequested,
  requestedNit,
  \* the state of ForgotPasswordDialog
  idNit,
  loading,
  success,
  buttonLocked,
  \* what is pending
  route,         \* the route shown: "/" is the login page
  loginPc,       \* the run of handleLogin: "idle", "recaptcha" (awaiting
                 \* executeRecaptcha) or "login" (awaiting login)
  loginArgs,     \* the user and password that run has captured
  pendingReset,  \* the id_nit of the fetch handleRequestToken awaits, or null
  closeTimer,    \* the 5 s timer of handleRequestToken is pending
  resetTimer,    \* its 0.5 s timer is pending
  granted        \* the NITs the reset-password endpoint has returned
                 \* success for (history)

calVars  == <<op, arg, calPc, ret, nextDay>>
inputs   == <<nit, fechaInicio, fechaFin, zone, now>>
locals   == <<inicioVisita, finVisita, diasHabilesRequeridos, mesActual,
              anioActual, idCounter, fechasPago, meses>>
pilaVars == <<pc, inputs, locals>>
handlerVars == <<hpc, upstream, response>>
middlewareVars == <<mpc, request, checks, nodeEnv, mwResponse>>
pageVars   == <<user, password, isLoading, recaptchaReady, recaptchaSiteKey,
                isForgotPasswordOpen, isPasswordEnabled, tokenRequested,
                requestedNit>>
dialogVars == <<idNit, loading, success, buttonLocked>>
pendingVars == <<route, loginPc, loginArgs, pendingReset, closeTimer, resetTimer,
                 granted>>
loginVars  == <<pageVars, dialogVars, pendingVars>>
restVars == <<otra, handlerVars, middlewareVars, loginVars>>
vars     == <<calVars, pilaVars, limiteSegSocial, restVars>>

CalIdle ==
  /\ op = "none"
  /\ arg = 0
  /\ calPc = "idle"
  /\ ret = 0
  /\ nextDay = 0

PilaIdle ==
  /\ pc = "idle"
  /\ nit = [type |-> "string", num |-> 0, str |-> <<>>]
  /\ fechaInicio = Fecha(0, 1, 1, 0, "date")
  /\ fechaFin = Fecha(0, 1, 1, 0, "date")
  /\ zone = 0
  /\ now = 0
  /\ inicioVisita = 0
  /\ finVisita = 0
  /\ diasHabilesRequeridos = 0
  /\ mesActual = 0
  /\ anioActual = 0
  /\ idCounter = 0
  /\ fechasPago = <<>>
  /\ meses = <<>>

\* No second call.
OtraIdle ==
  [ pc |-> "idle", inicioVisita |-> 0, finVisita |-> 0,
    diasHabilesRequeridos |-> 0, mesActual |-> 0, anioActual |-> 0,
    idCounter |-> 0, fechasPago |-> <<>>, meses |-> <<>> ]

NoResponse ==
  [ status |-> 0, success |-> FALSE, error |-> FALSE, warning |-> FALSE,
    fechas |-> <<>>, metadata |-> <<>> ]

HandlerIdle ==
  /\ hpc = "idle"
  /\ upstream = "none"
  /\ response = NoResponse

\* The response of the middleware: kind is "json", "redirect" or "next".
MwResponse(kind, status) ==
  [ kind |-> kind, status |-> status, location |-> <<>>, returnUrl |-> <<>>,
    securityHeaders |-> FALSE, timingProtection |-> FALSE,
    retryAfter |-> FALSE, cacheControl |-> "" ]

MiddlewareIdle ==
  /\ mpc = "idle"
  /\ request = [path |-> <<>>, method |-> "", authToken |-> "", origin |-> ""]
  /\ checks = [rateLimit |-> TRUE, headers |-> TRUE]
  /\ nodeEnv = ""
  /\ mwResponse = MwResponse("", 0)

\* The login page as it is mounted, the reCAPTCHA site key apart.
PageMounted ==
  /\ user = <<>>
  /\ password = <<>>
  /\ isLoading = FALSE
  /\ recaptchaReady = FALSE
  /\ isForgotPasswordOpen = FALSE
  /\ isPasswordEnabled = FALSE
  /\ tokenRequested = FALSE
  /\ requestedNit = <<>>
  /\ idNit = <<>>
  /\ loading = FALSE
  /\ success = FALSE
  /\ buttonLocked = FALSE
  /\ loginPc = "idle"
  /\ loginArgs = <<>>
  /\ pendingReset = <<>>
  /\ closeTimer = FALSE
  /\ resetTimer = FALSE
  /\ granted = {}

LoginIdle ==
  /\ PageMounted
  /\ recaptchaSiteKey = ""
  /\ route = "none"

RestIdle ==
  /\ otra = OtraIdle
  /\ HandlerIdle
  /\ MiddlewareIdle
  /\ LoginIdle

\* --------------------------------------- calendar operations, one per call
CalYears == CalMinYear..CalMaxYear
CalDays  == DaysFromCivil(CalMinYear, 1, 1)..DaysFromCivil(CalMaxYear, 12, 31)
\* Times of day a Date argument carries: local midnight and an afternoon hour.
CalHours == {0, 15}
CalDates == {day * HoursPerDay + hour : day \in CalDays, hour \in CalHours}

\* The years and dates the business-day operations are called with: those
\* of the businessDay table.
BizYears == (MinYear - 1)..(MaxYear + 2)
BizDates == {day * HoursPerDay + hour : day \in TableDays, hour \in CalHours}
\* getNextBusinessDay looks at the days after its argument.
NextDates == {date \in BizDates : DayOf(date) + 7 \in TableDays}
\* countBusinessDays: the start dates are the CountWindow + 1 days from
\* 1 December of MinYear on (they run into January), the end date is from 2
\* days before to MaxCountSpan days after the start date.
CountWindow  == 45
MaxCountSpan == 20
CountArgs ==
  { [startDate |-> (DaysFromCivil(MinYear, 12, 1) + w) * HoursPerDay + h1,
     endDate   |-> (DaysFromCivil(MinYear, 12, 1) + w + k) * HoursPerDay + h2] :
      w \in 0..CountWindow, k \in (0 - 2)..MaxCountSpan,
      h1 \in CalHours, h2 \in CalHours }
\* The largest n asked of getNthBusinessDayOfMonth (no month has as many
\* business days).
MaxN == 24
NthArgs   == [year : BizYears, month : 0..11, n : 1..MaxN]
MonthArgs == [year : BizYears, month : 0..11]

InitCal ==
  /\ \/ op = "getColombianHolidays" /\ arg \in CalYears
     \/ op = "moveToMonday" /\ arg \in CalDates
     \/ op = "calculateEaster" /\ arg \in CalYears
     \/ op = "isBusinessDay" /\ arg \in BizDates
     \/ op = "getNextBusinessDay" /\ arg \in NextDates
     \/ op = "countBusinessDays" /\ arg \in CountArgs
     \/ op = "getNthBusinessDayOfMonth" /\ arg \in NthArgs
     \/ op = "getBusinessDaysOfMonth" /\ arg \in MonthArgs
  /\ calPc = "call"
  /\ ret = 0
  /\ nextDay = 0
  /\ PilaIdle
  /\ limiteSegSocial = LIMITE_SEG_SOCIAL
  /\ RestIdle

CallGetColombianHolidays ==
  /\ calPc = "call"
  /\ op = "getColombianHolidays"
  /\ ret' = getColombianHolidays(arg)
  /\ calPc' = "return"
  /\ UNCHANGED <<op, arg, nextDay, pilaVars, limiteSegSocial, restVars>>

CallMoveToMonday ==
  /\ calPc = "call"
  /\ op = "moveToMonday"
  /\ ret' = moveToMonday(arg)
  /\ calPc' = "return"
  /\ UNCHANGED <<op, arg, nextDay, pilaVars, limiteSegSocial, restVars>>

CallCalculateEaster ==
  /\ calPc = "call"
  /\ op = "calculateEaster"
  /\ ret' = calculateEaster(arg)
  /\ calPc' = "return"
  /\ UNCHANGED <<op, arg, nextDay, pilaVars, limiteSegSocial, restVars>>

CallIsBusinessDay ==
  /\ calPc = "call"
  /\ op = "isBusinessDay"
  /\ ret' = isBusinessDay(arg)
  /\ calPc' = "return"
  /\ UNCHANGED <<op, arg, nextDay, pilaVars, limiteSegSocial, restVars>>

\* getNextBusinessDay with nextDay = new Date(date) left as it is.
CallGetNextBusinessDaySameDay ==
  /\ calPc = "call"
  /\ op = "getNextBusinessDay"
  /\ nextDay' = arg
  /\ calPc' = "loop"
  /\ UNCHANGED <<op, arg, ret, pilaVars, limiteSegSocial, restVars>>

\* getNextBusinessDay up to its loop: nextDay is the day after date.
CallGetNextBusinessDay ==
  /\ calPc = "call"
  /\ op = "getNextBusinessDay"
  /\ nextDay' = setDate(arg, getDate(arg) + 1)
  /\ calPc' = "loop"
  /\ UNCHANGED <<op, arg, ret, pilaVars, limiteSegSocial, restVars>>

\* One iteration of while (!isBusinessDay(nextDay)).
whileNextDay ==
  /\ calPc = "loop"
  /\ ~businessDay[DayOf(nextDay)]
  /\ nextDay' = setDate(nextDay, getDate(nextDay) + 1)
  /\ UNCHANGED <<op, arg, calPc, ret, pilaVars, limiteSegSocial, restVars>>

\* The loop condition fails: return nextDay.
returnNextDay ==
  /\ calPc = "loop"
  /\ businessDay[DayOf(nextDay)]
  /\ ret' = nextDay
  /\ calPc' = "return"
  /\ UNCHANGED <<op, arg, nextDay, pilaVars, limiteSegSocial, restVars>>

CallCountBusinessDays ==
  /\ calPc = "call"
  /\ op = "countBusinessDays"
  /\ ret' = countBusinessDays(arg.startDate, arg.endDate)
  /\ calPc' = "return"
  /\ UNCHANGED <<op, arg, nextDay, pilaVars, limiteSegSocial, restVars>>

CallGetNthBusinessDayOfMonth ==
  /\ calPc = "call"
  /\ op = "getNthBusinessDayOfMonth"
  /\ ret' = getNthBusinessDayOfMonth(arg.year, arg.month, arg.n)
  /\ calPc' = "return"
  /\ UNCHANGED <<op, arg, nextDay, pilaVars, limiteSegSocial, restVars>>

CallGetBusinessDaysOfMonth ==
  /\ calPc = "call"
  /\ op = "getBusinessDaysOfMonth"
  /\ ret' = getBusinessDaysOfMonth(arg.year, arg.month)
  /\ calPc' = "return"
  /\ UNCHANGED <<op, arg, nextDay, pilaVars, limiteSegSocial, restVars>>

NextCal ==
  \/ CallGetColombianHolidays
  \/ CallMoveToMonday
  \/ CallCalculateEaster
  \/ CallIsBusinessDay
  \/ CallGetNextBusinessDay
  \/ whileNextDay
  \/ returnNextDay
  \/ CallCountBusinessDays
  \/ CallGetNthBusinessDayOfMonth
  \/ CallGetBusinessDaysOfMonth

SpecCal == InitCal /\ [][NextCal]_vars

\* ------------------------------------------- calcularFechasPagoPila, a call
Chars8(a, b, c, d, e, f, g, h) == <<a, b, c, d, e, f, g, h>>
NitString(str) == [type |-> "string", num |-> 0, str |-> str]
NitNumber(num) == [type |-> "number", num |-> num, str |-> <<>>]

\* A NIT written with its separators and its check digit: "900.123.456-7".
NitConSeparadores ==
  NitString(<<"9", "0", "0", ".", "1", "2", "3", ".", "4", "5", "6", "-", "7">>)

\* NITs of the table's first (2 days), a middle (9 days) and its last
\* bracket (16 days), a NIT of one character and one whose last two
\* characters are not both digits.
NitInputs ==
  { NitString(Chars8("1", "2", "3", "4", "5", "6", "0", "0")),
    NitNumber(900123456),
    NitString(Chars8("8", "0", "0", "1", "2", "3", "9", "9")),
    NitString(<<"1">>),
    NitConSeparadores }

\* The NITs given to getDiasHabilesPago: every string of at most MaxNitLen
\* of the characters NitChars, the numbers up to MaxNitNumber, and the NITs
\* given to calcularFechasPagoPila, 900123456 also as a string.
NitChars     == {"0", "1", "5", "9", "-"}
MaxNitLen    == 3
MaxNitNumber == 120
DiasNits ==
  {NitString(str) : str \in UNION {[1..len -> NitChars] : len \in 0..MaxNitLen}}
    \cup {NitNumber(num) : num \in 0..MaxNitNumber}
    \cup NitInputs
    \cup {NitString(toString(900123456))}

StartMonths == {1, 12}
StartDays   == {1, 3, 20}
StartForms  == {<<0, "date">>, <<10, "datetime">>}
\* <<day, hour, form>>
EndForms    == {<<4, 0, "date">>, <<4, 10, "datetime">>, <<28, 0, "date">>}
ZoneOffsets == {0 - 5, 0}
\* Today, in days after the start date of the period.
NowOffsets  == {0 - 30, 0, 2, 35, 400}
NowHour     == 9

Starts ==
  { Fecha(y, m, d, hf[1], hf[2]) :
      y \in MinYear..MaxYear, m \in StartMonths, d \in StartDays, hf \in StartForms }

\* The end dates tried with a start date: in its month or one of the next
\* MaxSpan months.
EndsOf(start) ==
  { LET total == start.year * 12 + (start.month - 1) + k
    IN  Fecha(total \div 12, (total % 12) + 1, dhf[1], dhf[2], dhf[3]) :
      k \in 0..MaxSpan, dhf \in EndForms }

\* The period of the end-to-end example: 2025-01-01 to 2025-03-31.
ExampleInicio == Fecha(2025, 1, 1, 0, "date")
ExampleFin    == Fecha(2025, 3, 31, 0, "date")

\* A call of calcularFechasPagoPila.
InitPila ==
  /\ CalIdle
  /\ pc = "call"
  /\ nit \in NitInputs
  /\ fechaInicio \in Starts
  /\ fechaFin \in EndsOf(fechaInicio) \cup
                   (IF fechaInicio = ExampleInicio THEN {ExampleFin} ELSE {})
  /\ zone \in ZoneOffsets
  /\ now \in { NewDate(fechaInicio.year, fechaInicio.month - 1, fechaInicio.day + k)
                 + NowHour : k \in NowOffsets }
  /\ inicioVisita = 0
  /\ finVisita = 0
  /\ diasHabilesRequeridos = 0
  /\ mesActual = 0
  /\ anioActual = 0
  /\ idCounter = 0
  /\ fechasPago = <<>>
  /\ meses = <<>>

\* A call of getDiasHabilesPago.
InitDias ==
  /\ op = "getDiasHabilesPago"
  /\ arg \in DiasNits
  /\ calPc = "call"
  /\ ret = 0
  /\ nextDay = 0
  /\ PilaIdle

Init ==
  /\ limiteSegSocial = LIMITE_SEG_SOCIAL
  /\ InitPila \/ InitDias
  /\ RestIdle

CallGetDiasHabilesPago ==
  /\ calPc = "call"
  /\ op = "getDiasHabilesPago"
  /\ ret' = getDiasHabilesPago(arg)
  /\ calPc' = "return"
  /\ UNCHANGED <<op, arg, nextDay, pilaVars, limiteSegSocial, restVars>>

mesFin  == getMonth(finVisita)
anioFin == getFullYear(finVisita)

\* No default: a NIT without an entry in the table gets 0 days.
calcularFechasPagoPilaSinDefault ==
  /\ pc = "call"
  /\ LET nitStr         == String(nit)
         ultimosDigitos == padStart2(sliceLast2(nitStr))
         limiteSeg      == findLimite(ultimosDigitos)
     IN  diasHabilesRequeridos' =
           IF limiteSeg = null THEN 0 ELSE limiteSeg[1].DIAS_HABILES
  /\ inicioVisita' = parseFecha(fechaInicio, zone)
  /\ finVisita' = parseFecha(fechaFin, zone)
  /\ mesActual' = getMonth(inicioVisita')
  /\ anioActual' = getFullYear(inicioVisita')
  /\ idCounter' = 1
  /\ fechasPago' = <<>>
  /\ meses' = <<>>
  /\ pc' = "while"
  /\ UNCHANGED <<calVars, inputs, limiteSegSocial, restVars>>

\* calcularFechasPagoPila up to the while loop of calcularFechasConDiasHabiles.
calcularFechasPagoPila ==
  /\ pc = "call"
  /\ LET nitStr         == String(nit)
         ultimosDigitos == padStart2(sliceLast2(nitStr))
         limiteSeg      == findLimite(ultimosDigitos)
         defaultDias    == 10
     IN  diasHabilesRequeridos' =
           IF limiteSeg = null THEN defaultDias ELSE limiteSeg[1].DIAS_HABILES
  /\ inicioVisita' = parseFecha(fechaInicio, zone)
  /\ finVisita' = parseFecha(fechaFin, zone)
  /\ mesActual' = getMonth(inicioVisita')
  /\ anioActual' = getFullYear(inicioVisita')
  /\ idCounter' = 1
  /\ fechasPago' = <<>>
  /\ meses' = <<>>
  /\ pc' = "while"
  /\ UNCHANGED <<calVars, inputs, limiteSegSocial, restVars>>

whileCondition ==
  anioActual < anioFin \/ (anioActual = anioFin /\ mesActual <= mesFin)

\* The test against the period left out.
pushDiaPagoSinPeriodo(diaPago) ==
  IF diaPago # null
    THEN /\ fechasPago' = Append(fechasPago, FechaCorte(idCounter, diaPago[1], now))
         /\ idCounter' = idCounter + 1
    ELSE UNCHANGED <<fechasPago, idCounter>>

\* The body of the loop for the month's diaPago: an entry is pushed when
\* diaPago is not null and lies in the period.
pushDiaPago(diaPago) ==
  IF diaPago # null /\ diaPago[1] >= inicioVisita /\ diaPago[1] <= finVisita
    THEN /\ fechasPago' = Append(fechasPago, FechaCorte(idCounter, diaPago[1], now))
         /\ idCounter' = idCounter + 1
    ELSE UNCHANGED <<fechasPago, idCounter>>

\* December followed by January of the same year.
avanzarMesSinAnio ==
  /\ mesActual' = IF mesActual + 1 > 11 THEN 0 ELSE mesActual + 1
  /\ UNCHANGED anioActual

\* mesActual++ with the carry into the year.
avanzarMes ==
  IF mesActual + 1 > 11
    THEN mesActual' = 0 /\ anioActual' = anioActual + 1
    ELSE mesActual' = mesActual + 1 /\ UNCHANGED anioActual

\* One iteration of the month loop.
whileMes ==
  /\ pc = "while"
  /\ whileCondition
  /\ pushDiaPago(getNthBusinessDayOfMonth(anioActual, mesActual, diasHabilesRequeridos))
  /\ meses' = Append(meses, <<anioActual, mesActual>>)
  /\ avanzarMes
  /\ UNCHANGED <<pc, calVars, inputs, inicioVisita, finVisita, diasHabilesRequeridos,
                 limiteSegSocial, restVars>>

\* The loop condition fails: on to the marking pass.
whileEnd ==
  /\ pc = "while"
  /\ ~whileCondition
  /\ pc' = "mark"
  /\ UNCHANGED <<calVars, inputs, locals, limiteSegSocial, restVars>>

\* The marking pass works on the shared table and drops its last entry.
marcarYDevolverConPop ==
  /\ pc = "mark"
  /\ fechasPago' = marcarPrimeraFutura(fechasPago, now)
  /\ pc' = "done"
  /\ limiteSegSocial' = SubSeq(limiteSegSocial, 1, Len(limiteSegSocial) - 1)
  /\ UNCHANGED <<calVars, inputs, inicioVisita, finVisita, diasHabilesRequeridos,
                 mesActual, anioActual, idCounter, meses, restVars>>

\* The marking pass and the return.
marcarYDevolver ==
  /\ pc = "mark"
  /\ fechasPago' = marcarPrimeraFutura(fechasPago, now)
  /\ pc' = "done"
  /\ UNCHANGED <<calVars, inputs, inicioVisita, finVisita, diasHabilesRequeridos,
                 mesActual, anioActual, idCounter, meses, limiteSegSocial, restVars>>

Next ==
  \/ calcularFechasPagoPila
  \/ whileMes
  \/ whileEnd
  \/ marcarYDevolver
  \/ CallGetDiasHabilesPago

Spec == Init /\ [][Next]_vars

\* ------------------------- two concurrent calls of calcularFechasPagoPila
\* The position and the locals of the running call.
running ==
  [ pc |-> pc, inicioVisita |-> inicioVisita, finVisita |-> finVisita,
    diasHabilesRequeridos |-> diasHabilesRequeridos, mesActual |-> mesActual,
    anioActual |-> anioActual, idCounter |-> idCounter,
    fechasPago |-> fechasPago, meses |-> meses ]

\* Two requests call calcularFechasPagoPila with the same arguments at the
\* same instant: one call is running, the other waits in otra.
ParNits   == { NitString(Chars8("8", "0", "0", "1", "2", "3", "9", "9")),
               NitConSeparadores }
ParStarts == { Fecha(MaxYear, m, 3, 10, "datetime") : m \in StartMonths }
ParNowOffsets == {0, 35}

InitPar ==
  /\ CalIdle
  /\ limiteSegSocial = LIMITE_SEG_SOCIAL
  /\ pc = "call"
  /\ nit \in ParNits
  /\ fechaInicio \in ParStarts
  /\ fechaFin \in EndsOf(fechaInicio)
  /\ zone \in ZoneOffsets
  /\ now \in { NewDate(fechaInicio.year, fechaInicio.month - 1, fechaInicio.day + k)
                 + NowHour : k \in ParNowOffsets }
  /\ inicioVisita = 0
  /\ finVisita = 0
  /\ diasHabilesRequeridos = 0
  /\ mesActual = 0
  /\ anioActual = 0
  /\ idCounter = 0
  /\ fechasPago = <<>>
  /\ meses = <<>>
  /\ otra = [OtraIdle EXCEPT !.pc = "call"]
  /\ HandlerIdle
  /\ MiddlewareIdle
  /\ LoginIdle

\* The server turns from one request to the other: the running call waits
\* with its locals and the waiting call runs on with its own.
cambiarDeLlamada ==
  /\ otra.pc # "idle"
  /\ otra' = running
  /\ pc' = otra.pc
  /\ inicioVisita' = otra.inicioVisita
  /\ finVisita' = otra.finVisita
  /\ diasHabilesRequeridos' = otra.diasHabilesRequeridos
  /\ mesActual' = otra.mesActual
  /\ anioActual' = otra.anioActual
  /\ idCounter' = otra.idCounter
  /\ fechasPago' = otra.fechasPago
  /\ meses' = otra.meses
  /\ UNCHANGED <<calVars, inputs, limiteSegSocial, handlerVars, middlewareVars, loginVars>>

NextPar ==
  \/ calcularFechasPagoPila
  \/ whileMes
  \/ whileEnd
  \/ marcarYDevolver
  \/ cambiarDeLlamada

SpecPar == InitPar /\ [][NextPar]_vars

\* ------------------------------------------- the fechas-corte handler, GET
\* A value that !value takes for missing: undefined, "" or 0.
FechaFalsy(str) == str.form = "missing"
NitFalsy(n) ==
  \/ n.type = "string" /\ n.str = <<>>
  \/ n.type = "number" /\ n.num = 0
\* isNaN(new Date(str).getTime())
isNaN(str) == str.form \notin {"date", "datetime"}

JsonError(status) ==
  [NoResponse EXCEPT !.status = status, !.error = TRUE]

\* The test of the period with > for >=: equal dates pass.
rechazoSinIgualdad ==
  IF upstream = "sinId" THEN Some(JsonError(400))
  ELSE IF upstream = "sinCredenciales" THEN Some(JsonError(500))
  ELSE IF upstream = "fallo" THEN Some(JsonError(500))
  ELSE IF upstream = "sinDatos" THEN Some(JsonError(200))
  ELSE IF NitFalsy(nit) \/ FechaFalsy(fechaInicio) \/ FechaFalsy(fechaFin)
    THEN Some(JsonError(400))
  ELSE IF isNaN(fechaInicio) \/ isNaN(fechaFin) THEN Some(JsonError(400))
  ELSE IF parseFecha(fechaInicio, zone) > parseFecha(fechaFin, zone)
    THEN Some(JsonError(400))
  ELSE null

\* The early returns of GET, in their order: the response returned before
\* calcularFechasPagoPila is called, or null when the request passes.
rechazo ==
  IF upstream = "sinId" THEN Some(JsonError(400))
  ELSE IF upstream = "sinCredenciales" THEN Some(JsonError(500))
  ELSE IF upstream = "fallo" THEN Some(JsonError(500))
  ELSE IF upstream = "sinDatos" THEN Some(JsonError(200))
  ELSE IF NitFalsy(nit) \/ FechaFalsy(fechaInicio) \/ FechaFalsy(fechaFin)
    THEN Some(JsonError(400))
  ELSE IF isNaN(fechaInicio) \/ isNaN(fechaFin) THEN Some(JsonError(400))
  ELSE IF parseFecha(fechaInicio, zone) >= parseFecha(fechaFin, zone)
    THEN Some(JsonError(400))
  ELSE null

\* GET up to the call of calcularFechasPagoPila.
GET ==
  /\ hpc = "request"
  /\ IF rechazo # null
       THEN /\ response' = rechazo[1]
            /\ hpc' = "responded"
            /\ UNCHANGED pc
       ELSE /\ pc' = "call"
            /\ hpc' = "await"
            /\ UNCHANGED response
  /\ UNCHANGED <<calVars, inputs, locals, limiteSegSocial, otra, upstream, middlewareVars, loginVars>>

\* The handler's own calcularDiasHastaFecha, on the formatted date.
diasHastaFecha(fechaStr, ahora) ==
  LET fechaActual == setHours0(ahora)
      fechaCorte  == setHours0(parseDate(fechaStr))
  IN  ceilDiv(fechaCorte - fechaActual, HoursPerDay)

\* The callback of fechasCorte.map.
conEstadoActualizado(fecha, ahora) ==
  LET dias   == diasHastaFecha(fecha.fecha, ahora)
      estado == IF dias < 0 THEN "normal"
                ELSE IF dias = 0 THEN "warning"
                ELSE IF dias <= 10 THEN "warning"
                ELSE fecha.estado
  IN  [ id |-> fecha.id, fecha |-> fecha.fecha, estado |-> estado,
        mesTexto |-> fecha.mesTexto, diasRestantes |-> dias ]

metadataDe(total) ==
  [ nit |-> padStart2(sliceLast2(String(nit))), totalFechas |-> total,
    fechaInicio |-> fechaInicio, fechaFin |-> fechaFin ]

\* calcularFechasPagoPila has returned: the statuses are updated and the
\* dates are sent.
actualizarEstados ==
  /\ hpc = "await"
  /\ pc = "done"
  /\ LET fechas == [j \in 1..Len(fechasPago) |-> conEstadoActualizado(fechasPago[j], now)]
     IN  response' = [NoResponse EXCEPT !.status = 200, !.success = TRUE,
                                        !.fechas = fechas,
                                        !.metadata = metadataDe(Len(fechas))]
  /\ hpc' = "responded"
  /\ UNCHANGED <<calVars, pilaVars, limiteSegSocial, otra, upstream, middlewareVars, loginVars>>

\* The test against the end of the period left out.
incluirFechaPagoSinFin(fechaPago, inicio, fin) == fechaPago >= inicio

\* The test of generarFechasPredeterminadas against the period.
incluirFechaPago(fechaPago, inicio, fin) == fechaPago >= inicio /\ fechaPago <= fin

\* The loop of generarFechasPredeterminadas from the month (anio, mes) on.
RECURSIVE fechasPredeterminadasDesde(_, _, _, _, _)
fechasPredeterminadasDesde(anio, mes, id, inicio, fin) ==
  IF anio < getFullYear(fin) \/ (anio = getFullYear(fin) /\ mes <= getMonth(fin))
    THEN LET fechaPago == NewDate(anio, mes, 10)
             anioSig   == IF mes + 1 > 11 THEN anio + 1 ELSE anio
             mesSig    == IF mes + 1 > 11 THEN 0 ELSE mes + 1
         IN  IF incluirFechaPago(fechaPago, inicio, fin)
               THEN << [ id |-> id, fecha |-> formatDate(fechaPago),
                         estado |-> "normal", mesTexto |-> mesTexto(fechaPago) ] >>
                      \o fechasPredeterminadasDesde(anioSig, mesSig, id + 1, inicio, fin)
               ELSE fechasPredeterminadasDesde(anioSig, mesSig, id, inicio, fin)
    ELSE <<>>

generarFechasPredeterminadas(inicioStr, finStr) ==
  LET inicio == parseFecha(inicioStr, zone)
      fin    == parseFecha(finStr, zone)
      fechas == fechasPredeterminadasDesde(getFullYear(inicio), getMonth(inicio), 1,
                                           inicio, fin)
  IN  IF Len(fechas) > 0 THEN [fechas EXCEPT ![1].estado = "success"] ELSE fechas

\* An error is thrown inside the inner try, in calcularFechasPagoPila or in
\* the update of the statuses: the catch sends the default dates.
catchCalcError ==
  /\ hpc = "await"
  /\ pc \in {"call", "while", "mark", "done"}
  /\ LET fechasPredeterminadas == generarFechasPredeterminadas(fechaInicio, fechaFin)
     IN  response' = [NoResponse EXCEPT !.status = 200, !.success = TRUE,
                                        !.warning = TRUE,
                                        !.fechas = fechasPredeterminadas,
                                        !.metadata = metadataDe(Len(fechasPredeterminadas))]
  /\ hpc' = "responded"
  /\ pc' = "thrown"
  /\ UNCHANGED <<calVars, inputs, locals, limiteSegSocial, otra, upstream, middlewareVars, loginVars>>

\* The solicitudes tried: NITs of 2 and of 16 days and a missing NIT; start
\* dates of the last year, one that does not parse and a missing one; end
\* dates after, on and before the start date and one that does not parse;
\* periods that start and end on a 10th.
HandlerNits ==
  { NitString(Chars8("1", "2", "3", "4", "5", "6", "0", "0")),
    NitString(Chars8("8", "0", "0", "1", "2", "3", "9", "9")),
    NitString(<<>>) }
FechaInvalida == Fecha(MaxYear, 1, 1, 0, "invalid")
FechaAusente  == Fecha(MaxYear, 1, 1, 0, "missing")
HandlerStarts == {start \in Starts : start.year = MaxYear}
Solicitudes ==
  UNION { { <<n, start, end>> : n \in HandlerNits \ {NitString(<<>>)},
                                end \in EndsOf(start) \cup {start, FechaInvalida} } :
            start \in HandlerStarts }
    \cup { <<NitString(Chars8("1", "2", "3", "4", "5", "6", "0", "0")),
              Fecha(MaxYear, 1, 10, sf[1], sf[2]), Fecha(MaxYear, 3, 10, ef[1], ef[2])>> :
             sf \in StartForms, ef \in StartForms }
    \cup { <<n, start, Fecha(MaxYear, 2, 4, 0, "date")>> :
             n \in HandlerNits, start \in {FechaInvalida, FechaAusente,
                                           Fecha(MaxYear, 1, 3, 0, "date")} }

InitHandler ==
  /\ CalIdle
  /\ limiteSegSocial = LIMITE_SEG_SOCIAL
  /\ otra = OtraIdle
  /\ MiddlewareIdle
  /\ LoginIdle
  /\ hpc = "request"
  /\ response = NoResponse
  /\ pc = "idle"
  /\ \/ /\ upstream = "ok"
        /\ \E solicitud \in Solicitudes :
             /\ nit = solicitud[1]
             /\ fechaInicio = solicitud[2]
             /\ fechaFin = solicitud[3]
        /\ zone \in ZoneOffsets
        /\ now \in { NewDate(fechaInicio.year, fechaInicio.month - 1,
                             fechaInicio.day + k) + NowHour : k \in NowOffsets }
     \/ /\ upstream \in {"sinId", "sinCredenciales", "fallo", "sinDatos"}
        /\ nit = NitString(<<>>)
        /\ fechaInicio = FechaAusente
        /\ fechaFin = FechaAusente
        /\ zone = 0
        /\ now = 0
  /\ inicioVisita = 0
  /\ finVisita = 0
  /\ diasHabilesRequeridos = 0
  /\ mesActual = 0
  /\ anioActual = 0
  /\ idCounter = 0
  /\ fechasPago = <<>>
  /\ meses = <<>>

NextHandler ==
  \/ GET
  \/ calcularFechasPagoPila
  \/ whileMes
  \/ whileEnd
  \/ marcarYDevolver
  \/ actualizarEstados
  \/ catchCalcError

SpecHandler == InitHandler /\ [][NextHandler]_vars

\* ------------------------------------------------------------ middleware
startsWith(str, prefix) ==
  Len(prefix) <= Len(str) /\ SubSeq(str, 1, Len(prefix)) = prefix

protectedPaths == << <<"/", "d", "a", "s", "h", "b", "o", "a", "r", "d">> >>
authPaths == << <<"/">>, <<"/", "c", "o", "d", "e">> >>
rateLimitExcludedPaths ==
  << <<"/", "_", "n", "e", "x", "t">>,
     <<"/", "s", "t", "a", "t", "i", "c">>,
     <<"/", "f", "a", "v", "i", "c", "o", "n", ".", "i", "c", "o">>,
     <<"/", "l", "o", "g", "o", ".", "p", "n", "g">>,
     <<"/", "n", "a", "v", ".", "p", "n", "g">>,
     <<"/", "f", "o", "n", "d", "o", ".", "p", "n", "g">>,
     <<"/", "c", "a", "l", "e", "n", "d", "a", "r", "i", "o", ".", "j", "s", "o", "n">>,
     <<"/", "C", "A", "C", "_", "L", "I", "M", "I", "T", "E", "_", "S", "E", "G", "_", "S", "O", "C", "I", "A", "L", ".", "j", "s", "o", "n">> >>
csrfExemptPaths ==
  << <<"/", "a", "p", "i", "/", "p", "i", "l", "a", "/">>,
     <<"/", "a", "p", "i", "/", "d", "o", "c", "u", "m", "e", "n", "t", "o", "s", "/", "c", "o", "n", "s", "u", "l", "t", "a", "r">> >>
ApiAuth      == <<"/", "a", "p", "i", "/", "a", "u", "t", "h">>
ApiSolicitud == <<"/", "a", "p", "i", "/", "s", "o", "l", "i", "c", "i", "t", "u", "d">>
Api          == <<"/", "a", "p", "i", "/">>

\* paths.some(p => path.startsWith(p))
someStartsWith(paths, path) == \E j \in 1..Len(paths) : startsWith(path, paths[j])

\* withSecurityHeaders(request): a response that lets the request through,
\* with the security headers set.
withSecurityHeaders(req) ==
  [MwResponse("next", 200) EXCEPT !.securityHeaders = TRUE]

addTimingProtection(res) == [res EXCEPT !.timingProtection = TRUE]

\* NextResponse.json(body, {status}) with the security headers copied on it.
jsonWithSecurityHeaders(status, req) ==
  [MwResponse("json", status) EXCEPT
     !.securityHeaders = withSecurityHeaders(req).securityHeaders]

\* The Cache-Control header set for the path.
withCacheHeaders(res, path) ==
  IF startsWith(path, Api) THEN [res EXCEPT !.cacheControl = "no-store"]
  ELSE IF path = <<"/">> \/ \E j \in 1..Len(authPaths) : authPaths[j] = path
    THEN [res EXCEPT !.cacheControl = "public"]
  ELSE IF someStartsWith(protectedPaths, path)
    THEN [res EXCEPT !.cacheControl = "private"]
  ELSE res

\* The origin check fails: the method changes state, the path is not
\* exempt and the origin header names another host.
csrfBlocked(req) ==
  /\ req.method \in {"POST", "PUT", "DELETE", "PATCH"}
  /\ ~someStartsWith(csrfExemptPaths, req.path)
  /\ req.origin = "foreign"
  /\ nodeEnv = "production"

\* The function middleware(request).
middlewareResponse(req) ==
  LET path == req.path
      isExcludedFromRateLimit == someStartsWith(rateLimitExcludedPaths, path)
      isAuthenticated == req.authToken # ""
      passed == withCacheHeaders(
                  IF startsWith(path, ApiAuth) \/ startsWith(path, ApiSolicitud)
                    THEN addTimingProtection(withSecurityHeaders(req))
                    ELSE withSecurityHeaders(req),
                  path)
  IN  IF ~isExcludedFromRateLimit /\ ~checks.rateLimit
        THEN [jsonWithSecurityHeaders(429, req) EXCEPT !.retryAfter = TRUE]
      ELSE IF ~checks.headers THEN jsonWithSecurityHeaders(400, req)
      ELSE IF someStartsWith(protectedPaths, path) /\ ~isAuthenticated
        THEN withSecurityHeaders(req)
      ELSE IF csrfBlocked(req) THEN jsonWithSecurityHeaders(403, req)
      ELSE passed

middleware ==
  /\ mpc = "request"
  /\ mwResponse' = middlewareResponse(request)
  /\ mpc' = "responded"
  /\ UNCHANGED <<calVars, pilaVars, limiteSegSocial, otra, handlerVars,
                 request, checks, nodeEnv, loginVars>>

\* The requests tried.
RequestPaths ==
  { <<"/">>,
    <<"/", "c", "o", "d", "e">>,
    <<"/", "d", "a", "s", "h", "b", "o", "a", "r", "d">>,
    <<"/", "d", "a", "s", "h", "b", "o", "a", "r", "d", "/", "v", "i", "s", "i", "t", "a", "s">>,
    <<"/", "d", "a", "s", "h", "b", "o", "a", "r", "d", "s">>,
    <<"/", "a", "p", "i", "/", "a", "u", "t", "h", "/", "l", "o", "g", "i", "n">>,
    <<"/", "a", "p", "i", "/", "p", "i", "l", "a", "/", "f", "e", "c", "h", "a", "s", "-", "c", "o", "r", "t", "e">>,
    <<"/", "a", "p", "i", "/", "s", "o", "l", "i", "c", "i", "t", "u", "d">>,
    <<"/", "_", "n", "e", "x", "t", "/", "d", "a", "t", "a">>,
    <<"/", "f", "a", "v", "i", "c", "o", "n", ".", "i", "c", "o">>,
    <<"/", "u", "n", "a", "u", "t", "h", "o", "r", "i", "z", "e", "d">> }

InitMiddleware ==
  /\ CalIdle
  /\ PilaIdle
  /\ limiteSegSocial = LIMITE_SEG_SOCIAL
  /\ otra = OtraIdle
  /\ HandlerIdle
  /\ LoginIdle
  /\ mpc = "request"
  /\ request \in [ path : RequestPaths, method : {"GET", "POST"},
                   authToken : {"", "token"}, origin : {"", "own", "foreign"} ]
  /\ checks \in [rateLimit : BOOLEAN, headers : BOOLEAN]
  /\ nodeEnv \in {"production", "development"}
  /\ mwResponse = MwResponse("", 0)

NextMiddleware == middleware

SpecMiddleware == InitMiddleware /\ [][NextMiddleware]_vars

\* ------------------------- the login page and the forgot-password dialog
notLogin == <<calVars, pilaVars, limiteSegSocial, otra, handlerVars, middlewareVars>>

\* String.prototype.trim, for the space character.
RECURSIVE trimStart(_)
trimStart(str) ==
  IF str # <<>> /\ Head(str) = " " THEN trimStart(Tail(str)) ELSE str
RECURSIVE trimEnd(_)
trimEnd(str) ==
  IF str # <<>> /\ str[Len(str)] = " "
    THEN trimEnd(SubSeq(str, 1, Len(str) - 1))
    ELSE str
trim(str) == trimEnd(trimStart(str))

\* The values typed into the user field and into the dialog's field.
NitValues == { <<>>, <<"7">>, <<"7", " ">>, <<"8">> }
Passwords == { <<>>, <<"p">> }

\* The dialog is modal: while it is open the page behind it takes no input.
pageInteractive == route = "/" /\ ~isForgotPasswordOpen

\* idNit after the render that follows a handler, by the two effects of the
\* dialog: [defaultUser] sets idNit to a non-empty defaultUser that changed;
\* [open, defaultUser, success] sets it to defaultUser when one of them
\* changed and the dialog is closed without success. idNitSet is the value
\* the handler itself leaves.
idNitAfterEffects(userNew, openNew, successNew, idNitSet) ==
  IF userNew # user /\ userNew # <<>> THEN userNew
  ELSE IF /\ userNew # user \/ openNew # isForgotPasswordOpen \/ successNew # success
          /\ ~openNew
          /\ ~successNew
    THEN userNew
  ELSE idNitSet

\* window.onRecaptchaLoad and grecaptcha.ready.
onRecaptchaLoad ==
  /\ route = "/"
  /\ ~recaptchaReady
  /\ recaptchaReady' = TRUE
  /\ UNCHANGED <<user, password, isLoading, recaptchaSiteKey, isForgotPasswordOpen,
                 isPasswordEnabled, tokenRequested, requestedNit, dialogVars,
                 pendingVars, notLogin>>

\* The user field changes to value.
handleUserChange(value) ==
  /\ pageInteractive
  /\ ~(isLoading \/ recaptchaSiteKey = "")
  /\ value # user
  /\ user' = value
  /\ IF tokenRequested /\ value # requestedNit
       THEN /\ tokenRequested' = FALSE
            /\ isPasswordEnabled' = FALSE
            /\ requestedNit' = <<>>
            /\ password' = <<>>
       ELSE UNCHANGED <<tokenRequested, isPasswordEnabled, requestedNit, password>>
  /\ idNit' = idNitAfterEffects(value, isForgotPasswordOpen, success, idNit)
  /\ UNCHANGED <<isLoading, recaptchaReady, recaptchaSiteKey, isForgotPasswordOpen,
                 loading, success, buttonLocked, pendingVars, notLogin>>

\* The password field changes to value.
setPassword(value) ==
  /\ pageInteractive
  /\ ~(~isPasswordEnabled \/ isLoading \/ recaptchaSiteKey = "")
  /\ value # password
  /\ password' = value
  /\ UNCHANGED <<user, isLoading, recaptchaReady, recaptchaSiteKey,
                 isForgotPasswordOpen, isPasswordEnabled, tokenRequested,
                 requestedNit, dialogVars, pendingVars, notLogin>>

\* "Solicitar contrasena": setIsForgotPasswordOpen(true).
openForgotPassword ==
  /\ pageInteractive
  /\ ~isLoading
  /\ isForgotPasswordOpen' = TRUE
  /\ UNCHANGED <<user, password, isLoading, recaptchaReady, recaptchaSiteKey,
                 isPasswordEnabled, tokenRequested, requestedNit, dialogVars,
                 pendingVars, notLogin>>

\* The dialog's field changes to value.
setIdNit(value) ==
  /\ route = "/"
  /\ isForgotPasswordOpen
  /\ ~(loading \/ buttonLocked)
  /\ value # idNit
  /\ idNit' = value
  /\ UNCHANGED <<pageVars, loading, success, buttonLocked, pendingVars, notLogin>>

\* "Solicitar Token", up to the fetch.
handleRequestToken ==
  /\ route = "/"
  /\ isForgotPasswordOpen
  /\ ~(loading \/ trim(idNit) = <<>> \/ buttonLocked)
  /\ loading' = TRUE
  /\ success' = FALSE
  /\ pendingReset' = Some(trim(idNit))
  /\ idNit' = idNitAfterEffects(user, isForgotPasswordOpen, FALSE, idNit)
  /\ UNCHANGED <<pageVars, buttonLocked, route, loginPc, loginArgs, closeTimer,
                 resetTimer, granted, notLogin>>

\* setUser(nit) left out.
handleTokenRequestSuccessSinSetUser(nitSolicitado) ==
  /\ tokenRequested' = TRUE
  /\ isPasswordEnabled' = TRUE
  /\ requestedNit' = nitSolicitado
  /\ UNCHANGED user

\* The callback the page gives the dialog as onSuccess, with its argument nit.
handleTokenRequestSuccess(nitSolicitado) ==
  /\ tokenRequested' = TRUE
  /\ isPasswordEnabled' = TRUE
  /\ requestedNit' = nitSolicitado
  /\ user' = nitSolicitado

\* The fetch of handleRequestToken is answered: the rest of the function.
resetPasswordResponse(ok) ==
  /\ route = "/"
  /\ pendingReset # null
  /\ pendingReset' = null
  /\ loading' = FALSE
  /\ IF ok
       THEN /\ success' = TRUE
            /\ buttonLocked' = TRUE
            /\ handleTokenRequestSuccess(pendingReset[1])
            /\ closeTimer' = TRUE
            /\ granted' = granted \cup {pendingReset[1]}
            /\ idNit' = idNitAfterEffects(user', isForgotPasswordOpen, TRUE, idNit)
       ELSE UNCHANGED <<success, buttonLocked, tokenRequested, isPasswordEnabled,
                        requestedNit, user, closeTimer, granted, idNit>>
  /\ UNCHANGED <<password, isLoading, recaptchaReady, recaptchaSiteKey,
                 isForgotPasswordOpen, route, loginPc, loginArgs, resetTimer,
                 notLogin>>

\* The 5 s timer: onOpenChange(false) and the 0.5 s timer is set.
closeTimerFires ==
  /\ route = "/"
  /\ closeTimer
  /\ closeTimer' = FALSE
  /\ isForgotPasswordOpen' = FALSE
  /\ resetTimer' = TRUE
  /\ idNit' = idNitAfterEffects(user, FALSE, success, idNit)
  /\ UNCHANGED <<user, password, isLoading, recaptchaReady, recaptchaSiteKey,
                 isPasswordEnabled, tokenRequested, requestedNit, loading,
                 success, buttonLocked, route, loginPc, loginArgs, pendingReset,
                 granted, notLogin>>

\* The 0.5 s timer.
resetTimerFires ==
  /\ route = "/"
  /\ resetTimer
  /\ resetTimer' = FALSE
  /\ success' = FALSE
  /\ buttonLocked' = FALSE
  /\ idNit' = idNitAfterEffects(user, isForgotPasswordOpen, FALSE, idNit)
  /\ UNCHANGED <<pageVars, loading, route, loginPc, loginArgs, pendingReset,
                 closeTimer, granted, notLogin>>

\* The dialog is closed by the user: its button, Escape or a click outside.
handleClose ==
  /\ route = "/"
  /\ isForgotPasswordOpen
  /\ IF success /\ trim(idNit) # <<>>
       THEN handleTokenRequestSuccess(trim(idNit))
       ELSE UNCHANGED <<tokenRequested, isPasswordEnabled, requestedNit, user>>
  /\ isForgotPasswordOpen' = FALSE
  /\ idNit' = idNitAfterEffects(user', FALSE, success, idNit)
  /\ UNCHANGED <<password, isLoading, recaptchaReady, recaptchaSiteKey, loading,
                 success, buttonLocked, pendingVars, notLogin>>

\* The form is submitted: handleLogin up to its first await.
handleLogin ==
  /\ pageInteractive
  /\ ~isLoading
  /\ IF user = <<>> \/ password = <<>> THEN UNCHANGED <<isLoading, loginPc, loginArgs>>
     ELSE IF ~tokenRequested \/ ~isPasswordEnabled
       THEN UNCHANGED <<isLoading, loginPc, loginArgs>>
     ELSE IF recaptchaSiteKey = "" THEN UNCHANGED <<isLoading, loginPc, loginArgs>>
     ELSE IF ~recaptchaReady THEN UNCHANGED <<isLoading, loginPc, loginArgs>>
     ELSE /\ isLoading' = TRUE
          /\ loginPc' = "recaptcha"
          /\ loginArgs' = <<user, password>>
  /\ UNCHANGED <<user, password, recaptchaReady, recaptchaSiteKey,
                 isForgotPasswordOpen, isPasswordEnabled, tokenRequested,
                 requestedNit, dialogVars, route, pendingReset, closeTimer,
                 resetTimer, granted, notLogin>>

\* executeRecaptcha settles, with a token or with null: handleLogin goes on
\* to call login(user, password, recaptchaToken) or gives up.
executeRecaptchaSettles(token) ==
  /\ route = "/"
  /\ loginPc = "recaptcha"
  /\ IF token = null
       THEN /\ isLoading' = FALSE
            /\ loginPc' = "idle"
            /\ loginArgs' = <<>>
       ELSE /\ loginPc' = "login"
            /\ UNCHANGED <<isLoading, loginArgs>>
  /\ UNCHANGED <<user, password, recaptchaReady, recaptchaSiteKey,
                 isForgotPasswordOpen, isPasswordEnabled, tokenRequested,
                 requestedNit, dialogVars, route, pendingReset, closeTimer,
                 resetTimer, granted, notLogin>>

\* login settles: success and router.push("/code"), a failure or an
\* exception; finally setIsLoading(false).
loginSettles(result) ==
  /\ route = "/"
  /\ loginPc = "login"
  /\ route' = IF result = "success" THEN "/code" ELSE route
  /\ isLoading' = FALSE
  /\ loginPc' = "idle"
  /\ loginArgs' = <<>>
  /\ UNCHANGED <<user, password, recaptchaReady, recaptchaSiteKey,
                 isForgotPasswordOpen, isPasswordEnabled, tokenRequested,
                 requestedNit, dialogVars, pendingReset, closeTimer, resetTimer,
                 granted, notLogin>>

InitLogin ==
  /\ CalIdle
  /\ PilaIdle
  /\ limiteSegSocial = LIMITE_SEG_SOCIAL
  /\ otra = OtraIdle
  /\ HandlerIdle
  /\ MiddlewareIdle
  /\ PageMounted
  /\ recaptchaSiteKey \in {"", "site-key"}
  /\ route = "/"

RecaptchaSettles == \E token \in {null, Some("token")} : executeRecaptchaSettles(token)
LoginSettles == \E result \in {"success", "failure", "throw"} : loginSettles(result)

NextLogin ==
  \/ onRecaptchaLoad
  \/ \E value \in NitValues : handleUserChange(value)
  \/ \E value \in Passwords : setPassword(value)
  \/ openForgotPassword
  \/ \E value \in NitValues : setIdNit(value)
  \/ handleRequestToken
  \/ \E ok \in BOOLEAN : resetPasswordResponse(ok)
  \/ closeTimerFires
  \/ resetTimerFires
  \/ handleClose
  \/ handleLogin
  \/ RecaptchaSettles
  \/ LoginSettles

SpecLogin == InitLogin /\ [][NextLogin]_vars

\* The promises handleLogin awaits settle.
FairLogin ==
  /\ SpecLogin
  /\ WF_vars(RecaptchaSettles)
  /\ WF_vars(LoginSettles)

\* ------------------------------------------------------------------ claims
HolidaysReturned == calPc = "return" /\ op = "getColombianHolidays"
MovedToMonday    == calPc = "return" /\ op = "moveToMonday"
Days(n)          == n * HoursPerDay

\* --- calcularFechasPagoPila
Returned   == pc = "done"
\* The Date of entry j, read back from its formatted fecha.
DateOf(j)  == parseDate(fechasPago[j].fecha)
Entries    == 1..Len(fechasPago)
Today      == DayOf(now) * HoursPerDay
\* Months are counted from year 0: index = year * 12 + month (0-based).
MonthIndex(date) == getFullYear(date) * 12 + getMonth(date)
FirstMonth == MonthIndex(inicioVisita)
LastMonth  == MonthIndex(finVisita)
\* The N-th business day of the month with this index.
DiaPagoOf(index) ==
  getNthBusinessDayOfMonth(index \div 12, index % 12, diasHabilesRequeridos)

\* C1: for every NIT and every period with periodStart < periodEnd, every
\* entry of the list (while it is built and when it is returned) has a date
\* within [periodStart, periodEnd] inclusive.
C1_DatesWithinPeriod ==
  (pc # "call" /\ inicioVisita < finVisita) =>
    \A j \in Entries : inicioVisita <= DateOf(j) /\ DateOf(j) <= finVisita

\* A returned list of three entries from a period whose first month gave none.
C1_Witness ==
  /\ Returned
  /\ inicioVisita < finVisita
  /\ Len(fechasPago) = 3
  /\ MonthIndex(DateOf(1)) > FirstMonth

\* C2: the returned list has exactly one entry for each calendar month from
\* periodStart's month through periodEnd's month whose N-th business day
\* falls within the period by calendar day (also when it is the calendar day
\* of periodStart or periodEnd, whatever their time of day), and no other.
C2_OneEntryPerMonthByCalendarDay ==
  Returned =>
    LET due == {i \in FirstMonth..LastMonth :
                  /\ DiaPagoOf(i) # null
                  /\ DayOf(inicioVisita) <= DayOf(DiaPagoOf(i)[1])
                  /\ DayOf(DiaPagoOf(i)[1]) <= DayOf(finVisita)}
    IN  /\ Len(fechasPago) = Cardinality(due)
        /\ {MonthIndex(DateOf(j)) : j \in Entries} = due
        /\ \A j \in Entries : DateOf(j) = DiaPagoOf(MonthIndex(DateOf(j)))[1]

\* C3, the state part: ids are 1..N in emission order, dates ascend, and the
\* loop has visited the months from the start month on, one by one, at most
\* up to the end month; it goes on exactly while months remain.
C3_Invariant ==
  /\ \A j \in Entries : fechasPago[j].id = j
  /\ \A j \in Entries : j > 1 => DateOf(j - 1) < DateOf(j)
  /\ pc = "while" => idCounter = Len(fechasPago) + 1
  /\ pc # "call" =>
       /\ \A j \in 1..Len(meses) :
            meses[j] = <<(FirstMonth + j - 1) \div 12, (FirstMonth + j - 1) % 12>>
       /\ FirstMonth + Len(meses) <= LastMonth + 1 \/ Len(meses) = 0
  /\ pc = "while" => (whileCondition <=> FirstMonth + Len(meses) <= LastMonth)
  /\ pc \in {"mark", "done"} =>
       Len(meses) = IF LastMonth >= FirstMonth THEN LastMonth - FirstMonth + 1 ELSE 0

\* C3, the step part: the call only moves forward through its phases, and
\* an iteration of the loop visits one more month of an unchanged period, so
\* with the bound of C3_Invariant the loop ends after the period's months
\* (pc stays "idle" in a call of getDiasHabilesPago).
PcRank == [idle |-> 0, call |-> 0, while |-> 1, mark |-> 2, done |-> 3]
C3_Progress ==
  /\ PcRank[pc'] >= PcRank[pc]
  /\ (pc = "while" /\ pc' = "while") =>
       /\ Len(meses') = Len(meses) + 1
       /\ inicioVisita' = inicioVisita /\ finVisita' = finVisita
  /\ pc' = pc => pc \in {"while", "idle"}

\* C3: the entries are in chronological order with sequence ids exactly
\* 1, 2, ..., N, also when some month gives no entry; the month loop visits
\* each month from the start month to the end month once, across December
\* to January, and the call terminates: the loop takes one step for each
\* month that remains and then leaves for the marking pass and the return.
C3_OrderedIdsAndTermination ==
  /\ []C3_Invariant
  /\ [][C3_Progress]_vars

\* A returned list from a loop that crossed December to January and whose
\* first month gave no entry.
C3_Witness ==
  /\ Returned
  /\ Len(fechasPago) >= 2
  /\ Len(meses) > Len(fechasPago)
  /\ \E j \in 1..(Len(meses) - 1) : meses[j][2] = 11 /\ meses[j + 1][2] = 0
  /\ fechasPago[Len(fechasPago)].id = Len(fechasPago)

Successes == {j \in Entries : fechasPago[j].estado = "success"}
Upcoming  == {j \in Entries : DateOf(j) >= Today}

\* C4: in the returned list at most one entry has status success; if some
\* entry is dated today or later, the success entry is the first such entry;
\* if none is, no entry has status success.
C4_SuccessIsFirstUpcoming ==
  Returned =>
    /\ Cardinality(Successes) <= 1
    /\ Upcoming # {} =>
         Successes = {CHOOSE j \in Upcoming : \A q \in Upcoming : j <= q}
    /\ Upcoming = {} => Successes = {}

\* The second of three entries is the first dated today or later.
C4_Witness ==
  /\ Returned
  /\ Len(fechasPago) = 3
  /\ Successes = {2}
  /\ DateOf(1) < Today
  /\ DateOf(3) > Today

\* Whole days from today to the date of entry j.
DaysUntil(j) == DayOf(DateOf(j)) - DayOf(now)

\* C5: every entry other than the one marked success has its provisional
\* status: warning if it is dated today or at most 10 days after today,
\* normal if it is dated before today or more than 10 days after today; so
\* every entry before the success entry is normal.
C5_ProvisionalStatus ==
  /\ \A j \in Entries :
       fechasPago[j].estado # "success" =>
         fechasPago[j].estado =
           IF 0 <= DaysUntil(j) /\ DaysUntil(j) <= 10 THEN "warning" ELSE "normal"
  /\ \A j, k \in Entries :
       (j < k /\ fechasPago[k].estado = "success") => fechasPago[j].estado = "normal"
  /\ Returned => \A j \in Entries : fechasPago[j].estado \in {"success", "normal"}

\* A past entry, the success entry and a later entry, in this order.
C5_Witness ==
  /\ Returned
  /\ Len(fechasPago) = 3
  /\ fechasPago[1].estado = "normal" /\ DaysUntil(1) < 0
  /\ fechasPago[2].estado = "success" /\ DaysUntil(2) <= 10
  /\ fechasPago[3].estado = "normal" /\ DaysUntil(3) > 10

\* The end-to-end example: a NIT ending in "00", 2025-01-01 to 2025-03-31.
ExampleReturned ==
  /\ Returned
  /\ sliceLast2(String(nit)) = <<"0", "0">>
  /\ fechaInicio = ExampleInicio
  /\ fechaFin = ExampleFin

\* The day of `month` (0-based) of 2025 that is a business day with exactly
\* one business day of the month before it.
SecondBusinessDay2025(month) ==
  CHOOSE date \in {NewDate(2025, month, d) : d \in 1..28} :
    /\ isBusinessDay(date)
    /\ Cardinality({d \in 1..28 : /\ NewDate(2025, month, d) < date
                                  /\ isBusinessDay(NewDate(2025, month, d))}) = 1

ExampleDates ==
  /\ Len(fechasPago) = 3
  /\ fechasPago[1].fecha = <<"0", "3", "/", "0", "1", "/", "2", "0", "2", "5">>
  /\ fechasPago[2].fecha = <<"0", "4", "/", "0", "2", "/", "2", "0", "2", "5">>
  /\ fechasPago[3].fecha = <<"0", "4", "/", "0", "3", "/", "2", "0", "2", "5">>
  /\ \A j \in 1..3 : DateOf(j) = SecondBusinessDay2025(j - 1)
  /\ \A j \in 1..3 : fechasPago[j].id = j
  /\ DateOf(1) < DateOf(2) /\ DateOf(2) < DateOf(3)

\* C6 as stated: the example yields exactly 3 entries, the 2nd business days
\* of January, February and March 2025, ascending, with ids 1, 2, 3 and
\* with exactly one entry marked success.
C6_ExampleExactlyOneSuccess ==
  ExampleReturned => (ExampleDates /\ Cardinality(Successes) = 1)

\* C6 amended: the example yields exactly 3 entries, 03/01/2025, 04/02/2025
\* and 04/03/2025 (the 2nd business days of their months), ascending, with
\* ids 1, 2, 3; exactly one entry is marked success (the first dated today
\* or later) when today is 04/03/2025 or earlier, and none when it is later.
C6_ExampleSuccessWhileUpcoming ==
  ExampleReturned =>
    /\ ExampleDates
    /\ Today <= NewDate(2025, 2, 4) =>
         /\ Cardinality(Successes) = 1
         /\ \A j \in Successes : DateOf(j) >= Today
         /\ \A j \in Successes : \A q \in 1..(j - 1) : DateOf(q) < Today
    /\ Today > NewDate(2025, 2, 4) => Successes = {}

\* The example computed on 5 February 2025: the March entry is the success.
C6_Witness ==
  /\ ExampleReturned
  /\ Today = NewDate(2025, 1, 5)
  /\ Successes = {3}

\* C7 as stated: for every year Y, getColombianHolidays(Y) returns exactly
\* 18 holidays.
C7_ExactlyEighteenHolidays ==
  HolidaysReturned => Len(ret) = 18

\* C7 amended: for every year Y, getColombianHolidays(Y) returns exactly 19
\* holidays: six fixed, seven movable and six Easter-relative ones (Easter
\* Sunday among them).
C7_ExactlyNineteenHolidays ==
  HolidaysReturned =>
    /\ Len(ret) = 19
    /\ Cardinality({j \in 1..Len(ret) : ret[j].type = "fixed"}) = 6
    /\ Cardinality({j \in 1..Len(ret) : ret[j].type = "movable"}) = 7
    /\ Cardinality({j \in 1..Len(ret) : ret[j].type = "easter"}) = 6
    /\ \E j \in 1..Len(ret) : ret[j].name = "Domingo de Pascua"

C7_Witness ==
  HolidaysReturned /\ arg = 2024 /\ Len(ret) = 19

\* C8 as stated: for every year Y, the list returned by
\* getColombianHolidays(Y) is sorted strictly ascending by date, so no two
\* holidays of one year fall on the same calendar date.
C8_StrictlyAscending ==
  HolidaysReturned =>
    \A j \in 1..(Len(ret) - 1) : ret[j].date < ret[j + 1].date

\* C8 amended: the list is sorted ascending by date, not strictly: San Pedro
\* y San Pablo and Sagrado Corazon can be shifted to the same Monday (as on
\* 30 June 2025) and then appear as two entries with one date; every other
\* pair of holidays of a year falls on two different dates.
C8_AscendingUpToSanPedro ==
  HolidaysReturned =>
    /\ \A j \in 1..(Len(ret) - 1) : ret[j].date <= ret[j + 1].date
    /\ \A j, k \in 1..Len(ret) :
         (j < k /\ ret[j].date = ret[k].date) =>
           {ret[j].name, ret[k].name} = {"San Pedro y San Pablo", "Sagrado Corazon"}

C8_Witness ==
  /\ HolidaysReturned
  /\ arg = 2025
  /\ \E j \in 1..(Len(ret) - 1) :
       /\ ret[j].date = ret[j + 1].date
       /\ ret[j].date = NewDate(2025, 5, 30)

\* C9: moveToMonday applied to any date d returns a Monday in [d, d+6]: d
\* itself when d is a Monday, d+1 when d is a Sunday, otherwise the first
\* Monday after d; applying it to its own result changes nothing.
C9_MoveToMonday ==
  MovedToMonday =>
    /\ getDay(ret) = 1
    /\ arg <= ret /\ ret <= arg + Days(6)
    /\ HourOf(ret) = HourOf(arg)
    /\ getDay(arg) = 1 => ret = arg
    /\ getDay(arg) = 0 => ret = arg + Days(1)
    /\ \A n \in 1..6 : arg + Days(n) < ret => getDay(arg + Days(n)) # 1
    /\ moveToMonday(ret) = ret

\* A Sunday, the last day of its month, moved to the first of the next month.
C9_Witness ==
  /\ MovedToMonday
  /\ getDay(arg) = 0
  /\ ret = arg + Days(1)
  /\ getMonth(ret) # getMonth(arg)

HolidayAt(list, name, date) ==
  \E j \in 1..Len(list) : list[j].name = name /\ list[j].date = date

\* C10: for every year Y the list contains Holy Thursday at Easter(Y) - 3
\* days, Good Friday at Easter(Y) - 2 days and Easter Sunday itself,
\* unshifted, and Ascension, Corpus Christi and Sacred Heart at the Monday
\* shift of Easter(Y) + 39, + 60 and + 68 days, also across month ends.
C10_EasterRelativeHolidays ==
  HolidaysReturned =>
    LET easter == calculateEaster(arg)
    IN  /\ HolidayAt(ret, "Jueves Santo", easter - Days(3))
        /\ HolidayAt(ret, "Viernes Santo", easter - Days(2))
        /\ HolidayAt(ret, "Domingo de Pascua", easter)
        /\ HolidayAt(ret, "Ascension del Senor", moveToMonday(easter + Days(39)))
        /\ HolidayAt(ret, "Corpus Christi", moveToMonday(easter + Days(60)))
        /\ HolidayAt(ret, "Sagrado Corazon", moveToMonday(easter + Days(68)))
        /\ getDay(easter - Days(3)) = 4
        /\ getDay(easter - Days(2)) = 5
        /\ moveToMonday(easter + Days(39)) = easter + Days(43)
        /\ moveToMonday(easter + Days(60)) = easter + Days(64)
        /\ moveToMonday(easter + Days(68)) = easter + Days(71)

\* Easter on 1 April 2018: Holy Thursday falls in March, before Easter's month.
C10_Witness ==
  /\ HolidaysReturned
  /\ arg = 2018
  /\ calculateEaster(arg) = NewDate(2018, 3, 1)
  /\ HolidayAt(ret, "Jueves Santo", NewDate(2018, 2, 29))
  /\ HolidayAt(ret, "Sagrado Corazon", NewDate(2018, 5, 11))

\* --- calculateEaster
EasterReturned == calPc = "return" /\ op = "calculateEaster"

\* C11: calculateEaster yields 31 March for 2024 and 20 April for 2025, and
\* for every year of the range its result is a Sunday between 22 March and
\* 25 April of that year, at local midnight: the algorithm's 1-based month
\* (3 or 4) has become the 0-based month (2 or 3) of the Date.
C11_EasterSunday ==
  EasterReturned =>
    /\ arg = 2024 => ret = NewDate(2024, 2, 31)
    /\ arg = 2025 => ret = NewDate(2025, 3, 20)
    /\ getDay(ret) = 0
    /\ NewDate(arg, 2, 22) <= ret /\ ret <= NewDate(arg, 3, 25)
    /\ getFullYear(ret) = arg
    /\ getMonth(ret) \in {2, 3}
    /\ HourOf(ret) = 0

\* Easter 2024, on the 31st: a day the month after March does not have.
C11_Witness ==
  /\ EasterReturned
  /\ arg = 2024
  /\ getMonth(ret) = 2
  /\ getDate(ret) = 31

\* --- fixed and movable holidays
\* <<name, 0-based month, day>>
FixedDates ==
  { <<"Anio Nuevo", 0, 1>>, <<"Dia del Trabajo", 4, 1>>,
    <<"Dia de la Independencia", 6, 20>>, <<"Batalla de Boyaca", 7, 7>>,
    <<"Inmaculada Concepcion", 11, 8>>, <<"Navidad", 11, 25>> }
MovableBaseDates ==
  { <<"Reyes Magos", 0, 6>>, <<"San Jose", 2, 19>>,
    <<"San Pedro y San Pablo", 5, 29>>, <<"Asuncion de la Virgen", 7, 15>>,
    <<"Dia de la Raza", 9, 12>>, <<"Todos los Santos", 10, 1>>,
    <<"Independencia de Cartagena", 10, 11>> }
\* The Emiliani shift: the first Monday on or after the date.
FirstMondayFrom(date) == date + Days((8 - getDay(date)) % 7)
OfType(list, type) == {j \in 1..Len(list) : list[j].type = type}

\* C12: for every year Y the list contains the six fixed holidays on exactly
\* 1 Jan, 1 May, 20 Jul, 7 Aug, 8 Dec and 25 Dec of Y whatever their weekday,
\* and each of the seven movable holidays at the Emiliani shift of its base
\* date (6 Jan, 19 Mar, 29 Jun, 15 Aug, 12 Oct, 1 Nov, 11 Nov), so every
\* movable holiday falls on a Monday.
C12_FixedAndMovableHolidays ==
  HolidaysReturned =>
    /\ \A f \in FixedDates : HolidayAt(ret, f[1], NewDate(arg, f[2], f[3]))
    /\ {<<ret[j].name, ret[j].date>> : j \in OfType(ret, "fixed")}
         = {<<f[1], NewDate(arg, f[2], f[3])>> : f \in FixedDates}
    /\ Cardinality(OfType(ret, "fixed")) = 6
    /\ \A m \in MovableBaseDates :
         HolidayAt(ret, m[1], FirstMondayFrom(NewDate(arg, m[2], m[3])))
    /\ {<<ret[j].name, ret[j].date>> : j \in OfType(ret, "movable")}
         = {<<m[1], FirstMondayFrom(NewDate(arg, m[2], m[3]))>> : m \in MovableBaseDates}
    /\ Cardinality(OfType(ret, "movable")) = 7
    /\ \A j \in OfType(ret, "movable") : getDay(ret[j].date) = 1

\* 2023: New Year's Day is a Sunday and stays on 1 January; Epiphany, a
\* Friday, is moved to Monday 9 January.
C12_Witness ==
  /\ HolidaysReturned
  /\ arg = 2023
  /\ getDay(NewDate(2023, 0, 1)) = 0
  /\ HolidayAt(ret, "Anio Nuevo", NewDate(2023, 0, 1))
  /\ HolidayAt(ret, "Reyes Magos", NewDate(2023, 0, 9))

\* --- business days
BusinessDayReturned == calPc = "return" /\ op = "isBusinessDay"

\* C13: for every date d, isBusinessDay(d) is false when d is a Saturday or
\* a Sunday, false when d's calendar day is the day of some holiday of d's
\* year (whatever d's time of day), and true for every other date.
C13_IsBusinessDay ==
  BusinessDayReturned =>
    LET weekend == getDay(arg) \in {0, 6}
        holiday == \E h \in Elements(getColombianHolidays(getFullYear(arg))) :
                     DayOf(h.date) = DayOf(arg)
    IN  /\ weekend => ret = FALSE
        /\ holiday => ret = FALSE
        /\ (~weekend /\ ~holiday) => ret = TRUE
        /\ ret = businessDay[DayOf(arg)]

\* Monday 30 June 2025, a holiday, asked at 15:00.
C13_Witness ==
  /\ BusinessDayReturned
  /\ arg = NewDate(2025, 5, 30) + 15
  /\ getDay(arg) = 1
  /\ ret = FALSE

NextDayReturned == calPc = "return" /\ op = "getNextBusinessDay"
\* date lies strictly between a and b.
Between(date, a, b) == a < date /\ date < b

\* C14, the state part: in the loop nextDay is a day after d and every day
\* before it and after d is not a business day; the loop has then gone at
\* most a week ahead; the value returned is a business day, later than d,
\* with no business day strictly between d and it.
C14_Invariant ==
  /\ calPc = "loop" =>
       /\ nextDay > arg
       /\ nextDay <= arg + Days(7)
       /\ \E k \in 1..7 : nextDay = arg + Days(k)
       /\ \A k \in 1..7 :
            Between(arg + Days(k), arg, nextDay) => ~businessDay[DayOf(arg + Days(k))]
  /\ NextDayReturned =>
       /\ isBusinessDay(ret)
       /\ ret > arg
       /\ \E k \in 1..7 : ret = arg + Days(k)
       /\ \A k \in 1..7 :
            Between(arg + Days(k), arg, ret) => ~businessDay[DayOf(arg + Days(k))]

\* C14, the step part: an iteration of the loop moves nextDay one day ahead
\* and leaves the argument alone, so with the bound of C14_Invariant the loop
\* ends within a week.
C14_Progress ==
  (calPc = "loop" /\ calPc' = "loop") =>
    /\ nextDay' = nextDay + Days(1)
    /\ arg' = arg

\* C14: for every date d, getNextBusinessDay(d) terminates and returns the
\* smallest date strictly after d that is a business day: the result is a
\* business day, it is later than d, and no day strictly between d and the
\* result is a business day; also across the end of a month or a year.
C14_NextBusinessDay ==
  /\ []C14_Invariant
  /\ [][C14_Progress]_vars

\* From Tuesday 31 December 2024, 15:00, over the holiday of 1 January to
\* Thursday 2 January 2025.
C14_Witness ==
  /\ NextDayReturned
  /\ arg = NewDate(2024, 11, 31) + 15
  /\ ret = NewDate(2025, 0, 2) + 15

CountReturned == calPc = "return" /\ op = "countBusinessDays"
\* The business days among the calendar days from a's day to b's day.
BusinessDaysWithin(a, b) == {day \in DayOf(a)..DayOf(b) : businessDay[day]}

\* C15: countBusinessDays(start, end) is the number of business days in the
\* closed interval [start, end]: 0 when start > end, and
\* countBusinessDays(d, d) is 1 if d is a business day and 0 otherwise.
C15_CountsClosedInterval ==
  CountReturned =>
    /\ arg.startDate > arg.endDate => ret = 0
    /\ arg.startDate <= arg.endDate =>
         ret = Cardinality(BusinessDaysWithin(arg.startDate, arg.endDate))
    /\ arg.startDate = arg.endDate =>
         ret = IF businessDay[DayOf(arg.startDate)] THEN 1 ELSE 0

NthReturned   == calPc = "return" /\ op = "getNthBusinessDayOfMonth"
MonthReturned == calPc = "return" /\ op = "getBusinessDaysOfMonth"
\* The business days of a month (0-based), as a set.
BusinessDaysOf(year, month) ==
  {date \in {NewDate(year, month, d) : d \in 1..31} :
     getMonth(date) = month /\ businessDay[DayOf(date)]}

\* C16: getNthBusinessDayOfMonth(year, month, n) returns null exactly when
\* the month has fewer than n business days; otherwise it returns a business
\* day of that month with exactly n-1 business days of the month before it,
\* the n-th element of getBusinessDaysOfMonth(year, month), which is the
\* ascending list of all the business days of the month.
C16_NthBusinessDayOfMonth ==
  /\ NthReturned =>
       LET days == BusinessDaysOf(arg.year, arg.month)
       IN  /\ (ret = null) <=> (Cardinality(days) < arg.n)
           /\ ret # null =>
                /\ ret[1] \in days
                /\ isBusinessDay(ret[1])
                /\ getFullYear(ret[1]) = arg.year /\ getMonth(ret[1]) = arg.month
                /\ Cardinality({date \in days : date < ret[1]}) = arg.n - 1
                /\ ret[1] = getBusinessDaysOfMonth(arg.year, arg.month)[arg.n]
  /\ MonthReturned =>
       /\ Elements(ret) = BusinessDaysOf(arg.year, arg.month)
       /\ \A j \in 1..(Len(ret) - 1) : ret[j] < ret[j + 1]

\* January 2025: the holidays of 1 and 6 January are passed over, the 3rd
\* business day is Tuesday 7 January.
C16_Witness ==
  /\ NthReturned
  /\ arg = [year |-> 2025, month |-> 0, n |-> 3]
  /\ ret = Some(NewDate(2025, 0, 7))

\* --- the NIT table
DiasReturned == calPc = "return" /\ op = "getDiasHabilesPago"
\* calcularFechasPagoPila has resolved the day count and enters its loop.
LoopEntered  == pc = "while" /\ meses = <<>>
\* Every entry is the n-th business day of its month.
EntriesAreNthBusinessDays(n) ==
  \A j \in Entries :
    getNthBusinessDayOfMonth(getFullYear(DateOf(j)), getMonth(DateOf(j)), n)
      = Some(DateOf(j))
\* The last two characters of the NIT's string, left-padded with "0".
Suffix(n) ==
  LET str == String(n)
  IN  IF Len(str) = 0 THEN <<"0", "0">>
      ELSE IF Len(str) = 1 THEN <<"0", str[1]>>
      ELSE <<str[Len(str) - 1], str[Len(str)]>>
KeyOfTable(digitos) ==
  \E j \in 1..Len(limiteSegSocial) : limiteSegSocial[j].DIGITOS_NIT = digitos

\* C17: getDiasHabilesPago(nit) returns the table value of the NIT's last
\* two characters left-padded with "0" to length 2: 9 for "900123456", 2 for
\* "12345600" and 2 for "1"; calcularFechasPagoPila uses the same value as
\* getDiasHabilesPago for every NIT: it enters its loop with this value and
\* the entries it returns are the business days of this rank in their months.
C17_RequiredBusinessDays ==
  /\ DiasReturned =>
       /\ String(arg) = toString(900123456) => ret = 9
       /\ String(arg) = Chars8("1", "2", "3", "4", "5", "6", "0", "0") => ret = 2
       /\ String(arg) = <<"1">> => ret = 2
       /\ \A j \in 1..Len(limiteSegSocial) :
            limiteSegSocial[j].DIGITOS_NIT = Suffix(arg) =>
              ret = limiteSegSocial[j].DIAS_HABILES
  /\ LoopEntered =>
       /\ diasHabilesRequeridos = getDiasHabilesPago(nit)
       /\ \A j \in 1..Len(limiteSegSocial) :
            limiteSegSocial[j].DIGITOS_NIT = Suffix(nit) =>
              diasHabilesRequeridos = limiteSegSocial[j].DIAS_HABILES
  /\ Returned =>
       /\ diasHabilesRequeridos = getDiasHabilesPago(nit)
       /\ EntriesAreNthBusinessDays(getDiasHabilesPago(nit))

\* The NIT "1", looked up as "01".
C17_Witness ==
  /\ DiasReturned
  /\ arg = NitString(<<"1">>)
  /\ Suffix(arg) = <<"0", "1">>
  /\ ret = 2

\* The decimal digits of a string, in order.
RECURSIVE DecimalDigits(_)
DecimalDigits(str) ==
  IF str = <<>> THEN <<>>
  ELSE IF \E v \in 1..10 : DigitChars[v] = str[1]
    THEN <<str[1]>> \o DecimalDigits(SubSeq(str, 2, Len(str)))
    ELSE DecimalDigits(SubSeq(str, 2, Len(str)))
DigitsOnly(n) == NitString(DecimalDigits(String(n)))

\* C18: the required business-day count depends only on the decimal digits
\* of the input: a NIT and its decimal-digit string form (the same NIT
\* without separators or other non-digit characters) give the same count,
\* in getDiasHabilesPago and in calcularFechasPagoPila.
C18_DependsOnlyOnDigits ==
  /\ DiasReturned => ret = getDiasHabilesPago(DigitsOnly(arg))
  /\ LoopEntered => diasHabilesRequeridos = getDiasHabilesPago(DigitsOnly(nit))

\* The strings "00" to "99".
TwoDigitStrings == {<<DigitChars[a], DigitChars[b]>> : a, b \in 1..10}
\* The array literal has 100 entries, its keys are exactly the strings "00"
\* to "99", each once (as many keys as entries), and every value is a
\* positive integer.
LiteralOfHundredSuffixes ==
  /\ Len(LIMITE_SEG_SOCIAL) = 100
  /\ {LIMITE_SEG_SOCIAL[j].DIGITOS_NIT : j \in 1..Len(LIMITE_SEG_SOCIAL)} = TwoDigitStrings
  /\ Cardinality({LIMITE_SEG_SOCIAL[j].DIGITOS_NIT : j \in 1..Len(LIMITE_SEG_SOCIAL)})
       = Len(LIMITE_SEG_SOCIAL)
  /\ \A j \in 1..Len(LIMITE_SEG_SOCIAL) :
       /\ LIMITE_SEG_SOCIAL[j].DIAS_HABILES \in Nat
       /\ LIMITE_SEG_SOCIAL[j].DIAS_HABILES > 0

\* C19: the table has exactly 100 entries, its keys are exactly the two-digit
\* strings "00" to "99", each once, every value is a positive integer, and
\* no operation modifies the table: in every state it is the array literal.
C19_TableOfHundredSuffixes ==
  /\ limiteSegSocial = LIMITE_SEG_SOCIAL
  /\ LiteralOfHundredSuffixes

\* A call of calcularFechasPagoPila that read the table's last entry has
\* returned.
C19_Witness ==
  /\ Returned
  /\ Suffix(nit) = <<"9", "9">>
  /\ diasHabilesRequeridos = limiteSegSocial[100].DIAS_HABILES
  /\ Len(fechasPago) > 0

\* C20: getDiasHabilesPago returns a value for every input, the default 10
\* when the NIT's suffix is not a key of the table, and
\* calcularFechasPagoPila then enters its loop with N = 10 and returns: the
\* entries it returns are the 10th business days of their months.
C20_TotalWithDefault ==
  /\ DiasReturned =>
       /\ ret \in Nat /\ ret > 0
       /\ ~KeyOfTable(Suffix(arg)) => ret = 10
  /\ (LoopEntered /\ ~KeyOfTable(Suffix(nit))) => diasHabilesRequeridos = 10
  /\ (Returned /\ ~KeyOfTable(Suffix(nit))) =>
       /\ diasHabilesRequeridos = 10
       /\ EntriesAreNthBusinessDays(10)

\* "900.123.456-7": the suffix "-7" is no key; the call has returned two or
\* more 10th business days.
C20_Witness ==
  /\ Returned
  /\ nit = NitConSeparadores
  /\ ~KeyOfTable(Suffix(nit))
  /\ diasHabilesRequeridos = 10
  /\ Len(fechasPago) >= 2

\* --- the value a call returns, as a function of the day count
\* The entries calcularFechasConDiasHabiles pushes from the month with this
\* index on, for a NIT whose day count is dias, in the period and at the
\* instant of the call.
RECURSIVE fechasDesde(_, _, _)
fechasDesde(index, id, dias) ==
  IF index > LastMonth THEN <<>>
  ELSE LET diaPago == getNthBusinessDayOfMonth(index \div 12, index % 12, dias)
       IN  IF diaPago # null /\ diaPago[1] >= inicioVisita /\ diaPago[1] <= finVisita
             THEN <<FechaCorte(id, diaPago[1], now)>> \o fechasDesde(index + 1, id + 1, dias)
             ELSE fechasDesde(index + 1, id, dias)
\* What calcularFechasPagoPila returns for a NIT whose day count is dias.
ReturnedFor(dias) == marcarPrimeraFutura(fechasDesde(FirstMonth, 1, dias), now)
\* A NIT whose table entry is 10: the suffix "57".
NitOfTenDays == NitNumber(57)

\* C21: when the suffix is not found and the default 10 is used, the value
\* returned tells the fallback apart: getDiasHabilesPago returns a value that
\* differs from the one it returns for a NIT whose table entry is 10, and
\* calcularFechasPagoPila returns a value that differs from the one it
\* returns for such a NIT with the same period at the same instant.
C21_FallbackIsDistinguishable ==
  /\ (DiasReturned /\ ~KeyOfTable(Suffix(arg))) =>
       ret # getDiasHabilesPago(NitOfTenDays)
  /\ (Returned /\ ~KeyOfTable(Suffix(nit))) =>
       fechasPago # ReturnedFor(getDiasHabilesPago(NitOfTenDays))

\* --- two concurrent calls
BothReturned == pc = "done" /\ otra.pc = "done"
\* A step of the running call: the waiting call keeps its position.
StepOfRunning == otra'.pc = otra.pc /\ pc' # pc

\* C22, the state part: when both calls have returned, they have returned
\* the same list.
C22_Invariant ==
  BothReturned => fechasPago = otra.fechasPago

\* C22, the step part: a step of one call leaves the shared table, the
\* arguments and the locals of the other call as they were.
C22_Step ==
  /\ limiteSegSocial' = limiteSegSocial
  /\ inputs' = inputs
  /\ StepOfRunning => otra' = otra

\* C22: two calls of calcularFechasPagoPila with the same nit, fechaInicio
\* and fechaFin at the same instant return identical lists, however their
\* steps are interleaved, and no step of a call changes state shared with
\* the other call.
C22_IdenticalOutputs ==
  /\ []C22_Invariant
  /\ [][C22_Step]_vars

\* Both calls have returned two or more entries, the 16th business days.
C22_Witness ==
  /\ BothReturned
  /\ Len(fechasPago) >= 2
  /\ otra.meses = meses
  /\ diasHabilesRequeridos = 16

\* --- the fechas-corte handler
Responded == hpc = "responded"
\* calcularFechasPagoPila has been called by the handler.
CalculatorInvoked == pc # "idle"
FechaParses(str) == str.form \in {"date", "datetime"}
\* Both dates parse and the start is strictly before the end.
ValidPeriod ==
  /\ FechaParses(fechaInicio)
  /\ FechaParses(fechaFin)
  /\ parseFecha(fechaInicio, zone) < parseFecha(fechaFin, zone)

\* C23: for a solicitud one of whose dates does not parse or whose start is
\* not strictly before its end, the handler responds with status 400 and
\* calcularFechasPagoPila is not called; it is only ever called with two
\* dates that parse and with start < end.
C23_RejectsInvalidPeriod ==
  /\ (Responded /\ upstream = "ok" /\ ~ValidPeriod) =>
       response.status = 400 /\ response.error /\ ~response.success
  /\ (hpc # "idle" /\ CalculatorInvoked) => ValidPeriod

\* Rejected with 400 for equal start and end dates, the calculator not called.
C23_Witness ==
  /\ Responded
  /\ FechaParses(fechaInicio)
  /\ fechaInicio = fechaFin
  /\ ~NitFalsy(nit)
  /\ response.status = 400
  /\ ~CalculatorInvoked

\* The catch of the handler has sent the default dates.
FallbackResponded == Responded /\ pc = "thrown"
ResponseDateOf(j) == parseDate(response.fechas[j].fecha)
\* "DD/MM/YYYY": two digits, a slash, two digits, a slash, four digits.
IsDDMMYYYY(str) ==
  /\ Len(str) = 10
  /\ \A k \in {3, 6} : str[k] = "/"
  /\ \A k \in {1, 2, 4, 5, 7, 8, 9, 10} : \E d \in 1..10 : str[k] = DigitChars[d]
\* The months of the period whose 10th day, at local midnight, is in [start, end].
MonthsOfTenth ==
  LET inicio == parseFecha(fechaInicio, zone)
      fin    == parseFecha(fechaFin, zone)
  IN  {i \in MonthIndex(inicio)..MonthIndex(fin) :
         /\ inicio <= NewDate(i \div 12, i % 12, 10)
         /\ NewDate(i \div 12, i % 12, 10) <= fin}

\* C24: when calcularFechasPagoPila (or the update of its result) throws,
\* the handler responds with status 200, success true and the default
\* dates: one entry for each month of the period whose 10th day lies within
\* [start, end], in order, with ids 1..N and dates written DD/MM/YYYY;
\* start and end are the instants new Date(fechaInicio) and
\* new Date(fechaFin), the 10th day is new Date(year, month, 10).
C24_FallbackOnException ==
  FallbackResponded =>
    /\ response.status = 200 /\ response.success /\ ~response.error
    /\ Len(response.fechas) = Cardinality(MonthsOfTenth)
    /\ {MonthIndex(ResponseDateOf(j)) : j \in 1..Len(response.fechas)} = MonthsOfTenth
    /\ \A j \in 1..Len(response.fechas) :
         /\ response.fechas[j].id = j
         /\ IsDDMMYYYY(response.fechas[j].fecha)
         /\ getDate(ResponseDateOf(j)) = 10
         /\ j > 1 => ResponseDateOf(j - 1) < ResponseDateOf(j)

\* The default dates of a period of three months, the first two months
\* having their 10th day in it.
C24_Witness ==
  /\ FallbackResponded
  /\ Len(response.fechas) = 2
  /\ MonthIndex(parseFecha(fechaFin, zone)) = MonthIndex(parseFecha(fechaInicio, zone)) + 2
  /\ response.warning

\* The dates of calcularFechasPagoPila have been sent.
DatesResponded == Responded /\ pc = "done"
Remaining == {j \in 1..Len(response.fechas) : response.fechas[j].diasRestantes >= 0}

\* C25: in the response with the dates of calcularFechasPagoPila, whenever
\* some fecha has diasRestantes >= 0, the first such fecha has estado
\* "success".
C25_SuccessMarkKept ==
  (DatesResponded /\ Remaining # {}) =>
    \E first \in Remaining :
      /\ \A j \in Remaining : first <= j
      /\ response.fechas[first].estado = "success"

\* --- the day counts against the months
\* The day counts calcularFechasPagoPila can use: the values of the table
\* and the default.
DayCounts ==
  {limiteSegSocial[j].DIAS_HABILES : j \in 1..Len(limiteSegSocial)} \cup {10}

\* C26: the day counts the calculator can use are 2 to 16, and for each of
\* them and every month of every year checked getNthBusinessDayOfMonth
\* returns a date, not null: the month has at least that many business days.
C26_EveryMonthHasNthBusinessDay ==
  /\ DayCounts = 2..16
  /\ (NthReturned /\ arg.n \in DayCounts) =>
       /\ ret # null
       /\ Cardinality(BusinessDaysOf(arg.year, arg.month)) >= arg.n

\* April 2025, with Holy Thursday and Good Friday, has 20 business days; its
\* 16th is Thursday 24 April.
C26_Witness ==
  /\ NthReturned
  /\ arg = [year |-> 2025, month |-> 3, n |-> 16]
  /\ ret = Some(NewDate(2025, 3, 24))
  /\ Cardinality(BusinessDaysOf(2025, 3)) = 20

\* C27: the default of 10 is never taken: for every NIT given to
\* getDiasHabilesPago or to calcularFechasPagoPila, a string or an integer,
\* the suffix derived from it is a key of the table.
C27_FallbackUnreachable ==
  /\ DiasReturned => KeyOfTable(Suffix(arg))
  /\ LoopEntered => KeyOfTable(Suffix(nit))

\* --- the middleware
MwResponded == mpc = "responded"
Dashboard == <<"/", "d", "a", "s", "h", "b", "o", "a", "r", "d">>
\* The redirect to "/" with returnUrl set to the path.
RedirectToLogin(path) ==
  [MwResponse("redirect", 307) EXCEPT !.location = <<"/">>, !.returnUrl = path]

\* C28: for a request that passes the rate limit and the header validation,
\* whose path starts with /dashboard and that has no auth_token cookie, the
\* middleware returns a redirect to "/" with returnUrl the path, never a
\* response that lets the request through.
C28_RedirectsUnauthenticated ==
  ( /\ MwResponded
    /\ checks.rateLimit /\ checks.headers
    /\ startsWith(request.path, Dashboard)
    /\ request.authToken = "" ) =>
      /\ mwResponse.kind = "redirect"
      /\ mwResponse.location = RedirectToLogin(request.path).location
      /\ mwResponse.returnUrl = request.path
      /\ mwResponse.kind # "next"

\* --- the login page and the forgot-password dialog
\* C29: in every reachable state of the page and the dialog, if
\* tokenRequested is true then the reset-password endpoint has returned
\* success for the NIT held in requestedNit.
C29_TokenOnlyForGrantedNit ==
  tokenRequested => requestedNit \in granted

\* The step in which handleLogin calls login().
LoginCalled == loginPc = "recaptcha" /\ loginPc' = "login"

\* C30, the state part: isPasswordEnabled equals tokenRequested and
\* tokenRequested implies that the user field equals requestedNit.
C30_Invariant ==
  /\ isPasswordEnabled = tokenRequested
  /\ tokenRequested => user = requestedNit

\* C30, the step part: login() is called only in a state where
\* tokenRequested, recaptchaReady and a non-empty site key hold.
C30_Step ==
  LoginCalled => tokenRequested /\ recaptchaReady /\ recaptchaSiteKey # ""

\* C30: after any sequence of handleTokenRequestSuccess, handleUserChange
\* and handleLogin events isPasswordEnabled equals tokenRequested,
\* tokenRequested implies user = requestedNit, login() is called only with
\* tokenRequested, recaptchaReady and a site key, and every run of
\* handleLogin that sets isLoading to true sets it back to false.
C30_LoginPageConsistent ==
  /\ []C30_Invariant
  /\ [][C30_Step]_vars
  /\ isLoading ~> ~isLoading

\* A run of handleLogin has called login() for the NIT whose credentials
\* were requested.
C30_Witness ==
  /\ loginPc = "login"
  /\ isLoading
  /\ tokenRequested
  /\ user = requestedNit
  /\ loginArgs = <<requestedNit, <<"p">>>>
  /\ requestedNit \in granted

====
